---- MODULE Spec2Model ----
(***************************************************************************)
(* The WP Engine site management CLI: the keyboard menu (createMenu), the  *)
(* text prompt (getTextInput), the pause (waitForKeyPress), the            *)
(* environment helpers and main's nested selection loops, as a state       *)
(* machine whose steps run from one await to the next.                     *)
(***************************************************************************)
EXTENDS Integers, Sequences, FiniteSets, TLC

\* ----------------------------------------------------------------- bounds
MaxAccounts == 2
MaxSites == 2
MaxInstalls == 3
MaxInput == 2
MaxOptions == 4
MaxKeys == 3
MaxRecords == 3
MaxListeners == 2
MaxListed == 5

\* ------------------------------------------------------------ input data
\* Characters a user may type; strings are sequences of characters.
Chars == {"a", "A"}

\* The name the gateway reports for the install with a given id.
InstallName(id) == IF id % 2 = 1 THEN <<"a">> ELSE <<"A", "a">>

ALL_ENVIRONMENTS == <<"production", "staging", "development">>

\* Environment values the gateway may report for an install.
Environments == {"production", "staging", "development"}

ADD_SITE == "+ Add site"
BACK_TO_ACCOUNTS == "<- Back to account selection"
ADD_INSTALL == "+ Add install"
BACK_TO_SITES == "<- Back to site selection"
EXIT == "Exit"
DELETE_INSTALL == "Delete install"
BACK_TO_INSTALLS == "<- Back to install selection"

Range(s) == {s[i] : i \in 1..Len(s)}

\* Array.prototype.includes
includes(s, x) == \E i \in 1..Len(s) : s[i] = x

\* list[i] of a JavaScript array (0-based); none stands for undefined
At(list, i, none) == IF i + 1 \in 1..Len(list) THEN list[i + 1] ELSE none

\* A variant: the listener stays subscribed.
removeListener_keep(ls, h) == ls

\* stream.removeListener(event, h)
RECURSIVE removeListener(_, _)
removeListener(ls, h) ==
    IF ls = <<>> THEN <<>>
    ELSE IF Head(ls) = h THEN Tail(ls)
    ELSE <<Head(ls)>> \o removeListener(Tail(ls), h)

\* ------------------------------------------------------ gateway records
\* The values a field of a site or install record of the gateway's answer
\* may hold: nothing, an id, or an object with an id.
Undefined == [type |-> "undefined"]
Str(x) == [type |-> "string", value |-> x]
Obj(x) == [type |-> "object", id |-> x]
Ids == {"A1", "A2"}
NoId == Str("")

\* a === b, with b no object
StrictEquals(a, b) ==
    /\ a.type = b.type
    /\ a.type # "object"
    /\ a.type = "string" => a.value = b.value

\* whether a value counts as true in a && b
Truthy(v) == v.type = "object" \/ (v.type = "string" /\ v.value # "")

\* v.id of a truthy value: undefined on a string
IdOf(v) == IF v.type = "object" THEN v.id ELSE Undefined

\* A variant: only the bare id is compared.
siteBelongs_bareOnly(site, accountId) == StrictEquals(site.account, accountId)

\* the callback of allSites.filter in fetchSitesByAccount
siteBelongs(site, accountId) ==
    \/ StrictEquals(site.account, accountId)
    \/ (Truthy(site.account) /\ StrictEquals(IdOf(site.account), accountId))
    \/ StrictEquals(site.accountId, accountId)

\* the callback of allInstalls.filter in fetchInstallsBySite
installBelongs(install, siteId) ==
    \/ StrictEquals(install.site, siteId)
    \/ (Truthy(install.site) /\ StrictEquals(IdOf(install.site), siteId))
    \/ StrictEquals(install.siteId, siteId)

\* allSites.filter(...)
RECURSIVE fetchSitesByAccount(_, _)
fetchSitesByAccount(allSites, accountId) ==
    IF allSites = <<>> THEN <<>>
    ELSE (IF siteBelongs(Head(allSites), accountId)
          THEN <<Head(allSites)>> ELSE <<>>)
            \o fetchSitesByAccount(Tail(allSites), accountId)

\* allInstalls.filter(...)
RECURSIVE fetchInstallsBySite(_, _)
fetchInstallsBySite(allInstalls, siteId) ==
    IF allInstalls = <<>> THEN <<>>
    ELSE (IF installBelongs(Head(allInstalls), siteId)
          THEN <<Head(allInstalls)>> ELSE <<>>)
            \o fetchInstallsBySite(Tail(allInstalls), siteId)

\* The records the gateway may answer with: the parent as a bare id, as an
\* object with an id, under the alternate key, or not at all.
ParentValues == {Undefined} \cup {Str(i) : i \in Ids} \cup {Obj(Str(i)) : i \in Ids}
AlternateValues == {Undefined} \cup {Str(i) : i \in Ids}
SiteRecords == [account : ParentValues, accountId : AlternateValues]
InstallRecords == [site : ParentValues, siteId : AlternateValues]
ListsOf(records) == UNION {[1..k -> records] : k \in 0..MaxRecords}

\* ----------------------------------------------------------- credentials
\* What process.env may hold for a credential variable: nothing, the empty
\* string, or a value.
Unset == "<unset>"
EnvValues == {Unset, "", "secret"}
Environ == [WP_ENGINE_API_USER_ID : EnvValues, WP_ENGINE_API_PASSWORD : EnvValues]
SomeCredentials ==
    [WP_ENGINE_API_USER_ID |-> "secret", WP_ENGINE_API_PASSWORD |-> "secret"]

\* process.env.X || ''
OrEmpty(v) == IF v = Unset \/ v = "" THEN "" ELSE v

\* A variant: only the user id is tested.
createAuthHeader_userOnly(env) ==
    LET API_USER_ID == OrEmpty(env.WP_ENGINE_API_USER_ID)
        API_PASSWORD == OrEmpty(env.WP_ENGINE_API_PASSWORD) IN
    IF API_USER_ID = ""
    THEN [exit |-> TRUE, header |-> <<>>]
    ELSE [exit |-> FALSE, header |-> <<"Basic", API_USER_ID, ":", API_PASSWORD>>]

\* createAuthHeader: process.exit(1) when a credential is missing, else the
\* header of user id and password
createAuthHeader(env) ==
    LET API_USER_ID == OrEmpty(env.WP_ENGINE_API_USER_ID)
        API_PASSWORD == OrEmpty(env.WP_ENGINE_API_PASSWORD) IN
    IF API_USER_ID = "" \/ API_PASSWORD = ""
    THEN [exit |-> TRUE, header |-> <<>>]
    ELSE [exit |-> FALSE, header |-> <<"Basic", API_USER_ID, ":", API_PASSWORD>>]

\* ------------------------------------------------------------ key events
\* A keypress event as readline emits it: (str, key).  str = "" stands for
\* an undefined str (escape sequences such as the arrow keys).
Key(n, s, c, m) == [name |-> n, str |-> s, ctrl |-> c, meta |-> m]
KeyUp == Key("up", "", FALSE, FALSE)
KeyDown == Key("down", "", FALSE, FALSE)
KeyReturn == Key("return", "CR", FALSE, FALSE)
KeyEscape == Key("escape", "ESC", FALSE, TRUE)
KeyCtrlC == Key("c", "ETX", TRUE, FALSE)
KeyBackspace == Key("backspace", "DEL", FALSE, FALSE)
KeyChar(c) == Key(c, c, FALSE, FALSE)
KeyEvents ==
    {KeyUp, KeyDown, KeyReturn, KeyEscape, KeyCtrlC, KeyBackspace}
        \cup {KeyChar(c) : c \in Chars}

\* ------------------------------------------------------------- variables
VARIABLES
    pc,               \* the await main is suspended at
    exitCode,         \* process.exit's argument, -1 while running
    credentials,      \* process.env: the two credential variables
    accounts, selectedAccount,
    sites, selectedSite,
    installs, selectedInstall,
    menu,             \* createMenu's closure: options, selectedIndex
    input,            \* getTextInput's buffer
    name,             \* the name typed in an add flow
    environment,      \* the environment chosen in addInstallFlow
    confirmation,     \* the text typed to confirm a delete
    listeners,        \* process.stdin's keypress listeners, in order
    savedListeners,   \* getTextInput's saved listeners
    call,             \* the gateway call main awaits
    lastEvent,        \* history: the input event the last step consumed
    deleteCalls,      \* history: deleteInstall ids since the prompt opened
    afterConfirm,     \* history: outcome of the last delete confirmation
    fresh,            \* history: installs were fetched after the last mutation
    walk,             \* history: up/down events since the menu was presented
    menuResult,       \* history: what the last createMenu resolved with
    priorListeners,   \* history: the listeners when getTextInput was called
    onlyEscape,       \* the user presses no key but Escape from here on
    parentId,         \* the id fetchSitesByAccount / fetchInstallsBySite is given
    allRecords,       \* allSites / allInstalls: what the gateway answered
    filtered,         \* what the membership filter returns
    available,        \* what getAvailableEnvironments returns
    allExist          \* what allEnvironmentsExist returns

vars ==
    <<pc, exitCode, credentials, accounts, selectedAccount, sites,
      selectedSite, installs, selectedInstall, menu, input, name,
      environment, confirmation, listeners, savedListeners, call, lastEvent,
      deleteCalls, afterConfirm, fresh, walk, menuResult, priorListeners,
      onlyEscape, parentId,
      allRecords, filtered, available, allExist>>

NoAccount == [id |-> 0]
NoSite == [id |-> 0]
NoInstall == [id |-> 0, name |-> <<>>, environment |-> ""]
NoMenu == [options |-> <<>>, selectedIndex |-> 0]
NoCall == [op |-> "none"]
NoEvent == [type |-> "none", screen |-> "", value |-> 0]
NoResult == [by |-> "none", value |-> 0]

\* ------------------------------------------------------------ createMenu
\* A variant: the highlighted index of the previous menu is kept.
createMenu_keepIndex(options) ==
    [options |-> options, selectedIndex |-> menu.selectedIndex]

\* The closure createMenu starts with: selectedIndex = 0.
createMenu(options) == [options |-> options, selectedIndex |-> 0]

maxIndex(m) == Len(m.options) - 1

\* A variant: up on the first option wraps to the last one.
handleKeypress_wrap(m, key) ==
    IF key.name = "up"
    THEN [kind |-> "render",
          selectedIndex |-> IF m.selectedIndex > 0 THEN m.selectedIndex - 1
                            ELSE Len(m.options) - 1,
          value |-> 0]
    ELSE IF key.name = "down" /\ m.selectedIndex < Len(m.options) - 1
    THEN [kind |-> "render", selectedIndex |-> m.selectedIndex + 1, value |-> 0]
    ELSE IF key.name = "return"
    THEN [kind |-> "resolve", selectedIndex |-> m.selectedIndex,
          value |-> m.selectedIndex]
    ELSE IF key.name = "escape"
    THEN [kind |-> "resolve", selectedIndex |-> m.selectedIndex, value |-> -1]
    ELSE IF key.ctrl /\ key.name = "c"
    THEN [kind |-> "exit", selectedIndex |-> m.selectedIndex, value |-> 0]
    ELSE [kind |-> "ignore", selectedIndex |-> m.selectedIndex, value |-> 0]

\* A variant: Escape resolves with the index before the highlighted one.
handleKeypress_escapeIndex(m, key) ==
    IF key.name = "up" /\ m.selectedIndex > 0
    THEN [kind |-> "render", selectedIndex |-> m.selectedIndex - 1, value |-> 0]
    ELSE IF key.name = "down" /\ m.selectedIndex < Len(m.options) - 1
    THEN [kind |-> "render", selectedIndex |-> m.selectedIndex + 1, value |-> 0]
    ELSE IF key.name = "return"
    THEN [kind |-> "resolve", selectedIndex |-> m.selectedIndex,
          value |-> m.selectedIndex]
    ELSE IF key.name = "escape"
    THEN [kind |-> "resolve", selectedIndex |-> m.selectedIndex,
          value |-> m.selectedIndex - 1]
    ELSE IF key.ctrl /\ key.name = "c"
    THEN [kind |-> "exit", selectedIndex |-> m.selectedIndex, value |-> 0]
    ELSE [kind |-> "ignore", selectedIndex |-> m.selectedIndex, value |-> 0]

\* What createMenu.handleKeypress does with one key event:
\*   render  - selectedIndex changed, the menu is drawn again
\*   resolve - the promise resolves with value
\*   exit    - process.exit(0)
\*   ignore  - nothing happens
handleKeypress(m, key) ==
    IF key.name = "up" /\ m.selectedIndex > 0
    THEN [kind |-> "render", selectedIndex |-> m.selectedIndex - 1, value |-> 0]
    ELSE IF key.name = "down" /\ m.selectedIndex < maxIndex(m)
    THEN [kind |-> "render", selectedIndex |-> m.selectedIndex + 1, value |-> 0]
    ELSE IF key.name = "return"
    THEN [kind |-> "resolve", selectedIndex |-> m.selectedIndex,
          value |-> m.selectedIndex]
    ELSE IF key.name = "escape"
    THEN [kind |-> "resolve", selectedIndex |-> m.selectedIndex, value |-> -1]
    ELSE IF key.ctrl /\ key.name = "c"
    THEN [kind |-> "exit", selectedIndex |-> m.selectedIndex, value |-> 0]
    ELSE [kind |-> "ignore", selectedIndex |-> m.selectedIndex, value |-> 0]

\* ---------------------------------------------------------- getTextInput
\* A variant: backspace removes the first character.
textKeypress_removeFirst(buf, key) ==
    IF key.ctrl /\ key.name = "c"
    THEN [kind |-> "exit", input |-> buf]
    ELSE IF key.name = "return"
    THEN [kind |-> "resolve", input |-> buf]
    ELSE IF key.name = "backspace"
    THEN [kind |-> "edit",
          input |-> IF Len(buf) > 0 THEN Tail(buf) ELSE buf]
    ELSE IF key.str # "" /\ ~key.ctrl /\ ~key.meta
    THEN [kind |-> "edit", input |-> Append(buf, key.str)]
    ELSE [kind |-> "ignore", input |-> buf]

\* A variant: Escape ends the prompt as Enter does.
textKeypress_escapeEnds(buf, key) ==
    IF key.ctrl /\ key.name = "c"
    THEN [kind |-> "exit", input |-> buf]
    ELSE IF key.name = "return" \/ key.name = "escape"
    THEN [kind |-> "resolve", input |-> buf]
    ELSE IF key.name = "backspace"
    THEN [kind |-> "edit",
          input |-> IF Len(buf) > 0 THEN SubSeq(buf, 1, Len(buf) - 1) ELSE buf]
    ELSE IF key.str # "" /\ ~key.ctrl /\ ~key.meta
    THEN [kind |-> "edit", input |-> Append(buf, key.str)]
    ELSE [kind |-> "ignore", input |-> buf]

\* What getTextInput.handleKeypress does with one key event to the buffer.
textKeypress(buf, key) ==
    IF key.ctrl /\ key.name = "c"
    THEN [kind |-> "exit", input |-> buf]
    ELSE IF key.name = "return"
    THEN [kind |-> "resolve", input |-> buf]
    ELSE IF key.name = "backspace"
    THEN [kind |-> "edit",
          input |-> IF Len(buf) > 0 THEN SubSeq(buf, 1, Len(buf) - 1) ELSE buf]
    ELSE IF key.str # "" /\ ~key.ctrl /\ ~key.meta
    THEN [kind |-> "edit", input |-> Append(buf, key.str)]
    ELSE [kind |-> "ignore", input |-> buf]

\* A variant: the prompt's own handler stays subscribed.
getTextInput_release_keepOwn(ls, saved) == ls \o saved

\* getTextInput on Enter: its handler is removed, then every saved
\* listener is subscribed again, in the saved order
getTextInput_release(ls, saved) == removeListener(ls, "text") \o saved

\* ------------------------------------------------------ waitForKeyPress
\* waitForKeyPress.handleKeypress takes no argument: every key event
\* resolves the pause.
pauseKeypress(key) == [kind |-> "resolve"]

\* --------------------------------------------------- environment helpers
\* A variant: the installs' names are taken for their environments.
getExistingEnvironments_names(list) == [i \in 1..Len(list) |-> list[i].name]

getExistingEnvironments(list) == [i \in 1..Len(list) |-> list[i].environment]

\* ALL_ENVIRONMENTS.filter((env) => !existing.includes(env)), from position i
RECURSIVE filterAvailable(_, _)
filterAvailable(i, existing) ==
    IF i > Len(ALL_ENVIRONMENTS) THEN <<>>
    ELSE IF ~includes(existing, ALL_ENVIRONMENTS[i])
    THEN <<ALL_ENVIRONMENTS[i]>> \o filterAvailable(i + 1, existing)
    ELSE filterAvailable(i + 1, existing)

\* A variant: the filter keeps the environments that exist.
RECURSIVE filterExisting(_, _)
filterExisting(i, existing) ==
    IF i > Len(ALL_ENVIRONMENTS) THEN <<>>
    ELSE IF includes(existing, ALL_ENVIRONMENTS[i])
    THEN <<ALL_ENVIRONMENTS[i]>> \o filterExisting(i + 1, existing)
    ELSE filterExisting(i + 1, existing)

getAvailableEnvironments_existing(list) ==
    filterExisting(1, getExistingEnvironments(list))

getAvailableEnvironments(list) ==
    filterAvailable(1, getExistingEnvironments(list))

\* A variant: three installs are taken to cover the three environments.
allEnvironmentsExist_byCount(list) == Len(list) >= Len(ALL_ENVIRONMENTS)

\* A variant: an environment is always taken to be missing.
allEnvironmentsExist_never(list) == FALSE

\* A variant: three different values are taken to be the three environments.
allEnvironmentsExist_distinct(list) ==
    Cardinality(Range(getExistingEnvironments(list))) >= Len(ALL_ENVIRONMENTS)

allEnvironmentsExist(list) ==
    \A i \in 1..Len(ALL_ENVIRONMENTS) :
        includes(getExistingEnvironments(list), ALL_ENVIRONMENTS[i])

\* ------------------------------------------------------ gateway results
\* What fetchAccounts / fetchSitesByAccount may return: k records.
AccountList(k) == [i \in 1..k |-> [id |-> i]]
SiteList(k) == [i \in 1..k |-> [id |-> i]]

\* What fetchInstallsBySite may return: any list of up to MaxInstalls
\* installs, ids distinct, environments as the gateway likes (repeated
\* values included).
InstallLists ==
    UNION {
        { [i \in 1..k |-> [id |-> i, name |-> InstallName(i),
                           environment |-> e[i]]] :
            e \in [1..k -> Environments] } :
        k \in 0..MaxInstalls }

\* -------------------------------------------------------- menu contents
accountOptions(list) == [i \in 1..Len(list) |-> "account"]

siteOptions(list) ==
    [i \in 1..Len(list) |-> "site"] \o <<ADD_SITE, BACK_TO_ACCOUNTS>>

emptyInstallOptions == <<ADD_INSTALL, BACK_TO_SITES, EXIT>>

installOptions(list) ==
    [i \in 1..Len(list) |-> "install"]
        \o (IF ~allEnvironmentsExist(list) THEN <<ADD_INSTALL>> ELSE <<>>)
        \o <<BACK_TO_SITES>>

managementOptions == <<DELETE_INSTALL, BACK_TO_INSTALLS, EXIT>>

\* ------------------------------------------- what main does with a result
\* A variant: Escape is taken for a selection.
accountBranch_noEscape(accountIndex) == "select"

accountBranch(accountIndex) ==
    IF accountIndex = -1 THEN "exit" ELSE "select"

\* A variant: the Add row is not tested for.
siteBranch_addIsSite(siteIndex, options) ==
    IF siteIndex = -1 \/ siteIndex = Len(options) - 1 THEN "back"
    ELSE "select"

siteBranch(siteIndex, options) ==
    IF siteIndex = -1 \/ siteIndex = Len(options) - 1 THEN "back"
    ELSE IF siteIndex = Len(options) - 2 THEN "add"
    ELSE "select"

\* A variant: the second option exits and the third goes back.
emptyInstallBranch_swapped(emptyInstallIndex) ==
    IF emptyInstallIndex = -1 \/ emptyInstallIndex = 2 THEN "back"
    ELSE IF emptyInstallIndex = 1 THEN "exit"
    ELSE IF emptyInstallIndex = 0 THEN "add"
    ELSE "none"

emptyInstallBranch(emptyInstallIndex) ==
    IF emptyInstallIndex = -1 \/ emptyInstallIndex = 1 THEN "back"
    ELSE IF emptyInstallIndex = 2 THEN "exit"
    ELSE IF emptyInstallIndex = 0 THEN "add"
    ELSE "none"

addInstallOffset(list) == IF ~allEnvironmentsExist(list) THEN 2 ELSE 1

\* A variant: Escape is not tested for.
installBranch_noEscape(installIndex, options, list) ==
    IF installIndex = Len(options) - 1 THEN "back"
    ELSE IF ~allEnvironmentsExist(list)
            /\ installIndex = Len(options) - addInstallOffset(list)
    THEN "add"
    ELSE "select"

installBranch(installIndex, options, list) ==
    IF installIndex = -1 \/ installIndex = Len(options) - 1 THEN "back"
    ELSE IF ~allEnvironmentsExist(list)
            /\ installIndex = Len(options) - addInstallOffset(list)
    THEN "add"
    ELSE "select"

\* A variant: Escape is not tested for.
manageBranch_noEscape(managementIndex) ==
    IF managementIndex = 1 THEN "back"
    ELSE IF managementIndex = 0 THEN "delete"
    ELSE IF managementIndex = 2 THEN "exit"
    ELSE "none"

\* A variant: the third option goes back to the install selection.
manageBranch_exitIsBack(managementIndex) ==
    IF managementIndex = -1 \/ managementIndex = 1 \/ managementIndex = 2
    THEN "back"
    ELSE IF managementIndex = 0 THEN "delete"
    ELSE "none"

manageBranch(managementIndex) ==
    IF managementIndex = -1 \/ managementIndex = 1 THEN "back"
    ELSE IF managementIndex = 0 THEN "delete"
    ELSE IF managementIndex = 2 THEN "exit"
    ELSE "none"

\* A variant: Escape is taken for a selection.
environmentBranch_noCancel(environmentIndex) == "select"

environmentBranch(environmentIndex) ==
    IF environmentIndex = -1 THEN "cancel" ELSE "select"

\* A variant: the comparison ignores case.
Lower(str) == [i \in 1..Len(str) |-> IF str[i] = "A" THEN "a" ELSE str[i]]
confirmationDiffers_ignoreCase(typed, installName) ==
    Lower(typed) # Lower(installName)

\* confirmation !== selectedInstall.name
confirmationDiffers(typed, installName) == typed # installName

\* ---------------------------------------------------------------- screens
MenuScreens ==
    {"accountMenu", "siteMenu", "emptyInstallMenu", "installMenu",
     "manageMenu", "environmentMenu"}
PromptScreens == {"siteName", "installName", "deleteConfirm"}
PauseScreens ==
    {"noSites", "siteAdded", "siteFailed", "noEnvironments", "installAdded",
     "installFailed", "incorrectConfirmation", "installDeleted",
     "deleteFailed"}
GatewayWaits ==
    {"fetchAccounts", "fetchSites", "fetchInstalls", "createSite",
     "createInstall", "deleteInstall"}
WaitingForKey == MenuScreens \cup PromptScreens \cup PauseScreens

\* -------------------------------------------------------- control blocks
\* Each sets pc, exitCode, menu, listeners, savedListeners, input and call;
\* ls is the listener list once the handler that just ran has removed itself.
\* input and savedListeners are locals of getTextInput's closure: they hold
\* a value only while a prompt is open.
ProcessExit(code) ==
    /\ pc' = "exited"
    /\ exitCode' = code
    /\ call' = NoCall
    /\ UNCHANGED <<menu, listeners, savedListeners, input>>

\* A variant: the handler that just ran stays subscribed during the call.
Await_listening(c, ls) ==
    /\ pc' = c.op
    /\ call' = c
    /\ menu' = NoMenu
    /\ listeners' = listeners
    /\ input' = <<>>
    /\ savedListeners' = <<>>
    /\ UNCHANGED exitCode

Await(c, ls) ==
    /\ pc' = c.op
    /\ call' = c
    /\ menu' = NoMenu
    /\ listeners' = ls
    /\ input' = <<>>
    /\ savedListeners' = <<>>
    /\ UNCHANGED exitCode

PresentMenu(screen, options, ls) ==
    /\ pc' = screen
    /\ menu' = createMenu(options)
    /\ listeners' = Append(ls, "menu")
    /\ call' = NoCall
    /\ input' = <<>>
    /\ savedListeners' = <<>>
    /\ UNCHANGED exitCode

\* getTextInput: every listener is removed and kept, the prompt's is added
OpenPrompt(screen, ls) ==
    /\ pc' = screen
    /\ input' = <<>>
    /\ savedListeners' = ls
    /\ listeners' = <<"text">>
    /\ menu' = NoMenu
    /\ call' = NoCall
    /\ UNCHANGED exitCode

\* waitForKeyPress
Pause(screen, ls) ==
    /\ pc' = screen
    /\ listeners' = Append(ls, "anykey")
    /\ menu' = NoMenu
    /\ call' = NoCall
    /\ input' = <<>>
    /\ savedListeners' = <<>>
    /\ UNCHANGED exitCode

\* ------------------------------------------------------------ loop heads
\* A list main does not read again before its loop fetches it anew (accounts
\* once an account is selected, sites once a site is, installs once an
\* install is or createInstall has answered) is dropped from the state.
\* while (!exitApp): load the accounts
AccountsLoop(ls) ==
    /\ Await([op |-> "fetchAccounts"], ls)
    /\ accounts' = <<>>
    /\ selectedAccount' = NoAccount
    /\ sites' = <<>>
    /\ selectedSite' = NoSite
    /\ installs' = <<>>
    /\ selectedInstall' = NoInstall
    /\ name' = <<>>
    /\ environment' = ""
    /\ confirmation' = <<>>

\* while (!backToAccounts && !exitApp): load the account's sites
SitesLoop(account, ls) ==
    /\ Await([op |-> "fetchSites", accountId |-> account.id], ls)
    /\ selectedAccount' = account
    /\ accounts' = <<>>
    /\ sites' = <<>>
    /\ selectedSite' = NoSite
    /\ installs' = <<>>
    /\ selectedInstall' = NoInstall
    /\ name' = <<>>
    /\ environment' = ""
    /\ confirmation' = <<>>

\* while (!backToSites && ...): load the site's installs
InstallsLoop(site, ls) ==
    /\ Await([op |-> "fetchInstalls", siteId |-> site.id], ls)
    /\ selectedSite' = site
    /\ sites' = <<>>
    /\ installs' = <<>>
    /\ selectedInstall' = NoInstall
    /\ name' = <<>>
    /\ environment' = ""
    /\ confirmation' = <<>>
    /\ UNCHANGED <<accounts, selectedAccount>>

\* while (!backToInstalls && ...): show the install and its menu
ManageLoop(install, ls) ==
    /\ PresentMenu("manageMenu", managementOptions, ls)
    /\ selectedInstall' = install
    /\ installs' = <<>>
    /\ confirmation' = <<>>
    /\ UNCHANGED <<accounts, selectedAccount, sites, selectedSite, name,
                   environment>>

\* A variant: the end of main reports a failure.
ThankYou_failure ==
    /\ ProcessExit(1)
    /\ UNCHANGED <<accounts, selectedAccount, sites, selectedSite, installs,
                   selectedInstall, name, environment, confirmation>>

\* the end of main: process.exit(0)
ThankYou ==
    /\ ProcessExit(0)
    /\ UNCHANGED <<accounts, selectedAccount, sites, selectedSite, installs,
                   selectedInstall, name, environment, confirmation>>

\* main's catch, and the other process.exit(1) places
Fatal ==
    /\ ProcessExit(1)
    /\ UNCHANGED <<accounts, selectedAccount, sites, selectedSite, installs,
                   selectedInstall, name, environment, confirmation>>

dataVars ==
    <<accounts, selectedAccount, sites, selectedSite, installs,
      selectedInstall, name, environment, confirmation>>
componentVars == <<walk, menuResult, priorListeners, onlyEscape>>
helperVars == <<available, allExist>>
filterVars == <<parentId, allRecords, filtered, helperVars>>

\* ------------------------------------------------------ history variables
MenuEvent(screen, value) == [type |-> "menu", screen |-> screen, value |-> value]
InterruptEvent(screen) == [type |-> "interrupt", screen |-> screen, value |-> 0]
KeyEvent(screen) == [type |-> "key", screen |-> screen, value |-> 0]
NoConfirm == [outcome |-> "none", install |-> NoInstall]

\* a step that is no input event and no gateway traffic of interest
Quiet == lastEvent' = NoEvent

KeepHistory == UNCHANGED <<deleteCalls, afterConfirm, fresh>>

\* a menu resolved: the histories of the last delete confirmation end here
Resolved(screen, value) ==
    /\ lastEvent' = MenuEvent(screen, value)
    /\ deleteCalls' = <<>>
    /\ afterConfirm' = NoConfirm

Consumed(screen, key) ==
    lastEvent' = IF key = KeyCtrlC THEN InterruptEvent(screen) ELSE NoEvent

\* a key event delivered to getTextInput's handler, by the key's name
PromptEvent(screen, key) ==
    IF key = KeyCtrlC THEN InterruptEvent(screen)
    ELSE [type |-> key.name, screen |-> screen, value |-> 0]

\* ------------------------------------------------------------------ Init
\* the module is loaded and main is about to run: no request is under way
Init ==
    /\ pc = "main"
    /\ exitCode = -1
    /\ credentials \in Environ
    /\ accounts = <<>>
    /\ selectedAccount = NoAccount
    /\ sites = <<>>
    /\ selectedSite = NoSite
    /\ installs = <<>>
    /\ selectedInstall = NoInstall
    /\ menu = NoMenu
    /\ input = <<>>
    /\ name = <<>>
    /\ environment = ""
    /\ confirmation = <<>>
    /\ listeners = <<"readline">>
    /\ savedListeners = <<>>
    /\ call = NoCall
    /\ lastEvent = NoEvent
    /\ deleteCalls = <<>>
    /\ afterConfirm = NoConfirm
    /\ fresh = FALSE
    /\ walk = <<>>
    /\ menuResult = NoResult
    /\ priorListeners = <<>>
    /\ onlyEscape = FALSE
    /\ parentId = NoId
    /\ allRecords = <<>>
    /\ filtered = <<>>
    /\ available = <<>>
    /\ allExist = FALSE

\* ------------------------------------------------------- account screen
\* main calls fetchAccounts, which evaluates createAuthHeader() for the
\* request's headers before fetch is called: with a missing credential
\* the process ends there
NoCredentials ==
    /\ pc = "main"
    /\ createAuthHeader(credentials).exit
    /\ Fatal
    /\ Quiet
    /\ KeepHistory
    /\ UNCHANGED <<credentials, componentVars, filterVars>>

\* with both credentials the request for the accounts is sent
MainStarts ==
    /\ pc = "main"
    /\ ~createAuthHeader(credentials).exit
    /\ AccountsLoop(listeners)
    /\ Quiet
    /\ KeepHistory
    /\ UNCHANGED <<credentials, componentVars, filterVars>>

\* A variant: the account menu is presented for an empty list too.
FetchAccountsReturns_emptyMenu(k) ==
    /\ pc = "fetchAccounts"
    /\ PresentMenu("accountMenu", accountOptions(AccountList(k)), listeners)
    /\ accounts' = AccountList(k)
    /\ UNCHANGED <<selectedAccount, sites, selectedSite, installs,
                   selectedInstall, name, environment, confirmation>>
    /\ Quiet
    /\ KeepHistory
    /\ UNCHANGED <<credentials, componentVars, filterVars>>

FetchAccountsReturns(k) ==
    /\ pc = "fetchAccounts"
    /\ IF k = 0
       THEN Fatal
       ELSE /\ PresentMenu("accountMenu", accountOptions(AccountList(k)), listeners)
            /\ accounts' = AccountList(k)
            /\ UNCHANGED <<selectedAccount, sites, selectedSite, installs,
                           selectedInstall, name, environment, confirmation>>
    /\ Quiet
    /\ KeepHistory
    /\ UNCHANGED <<credentials, componentVars, filterVars>>

FetchAccountsThrows ==
    /\ pc = "fetchAccounts"
    /\ Fatal
    /\ Quiet
    /\ KeepHistory
    /\ UNCHANGED <<credentials, componentVars, filterVars>>

\* -------------------------------------------------- keys on every menu
\* up, down, Ctrl+C and the keys createMenu ignores
MenuKeypress(key) ==
    /\ pc \in MenuScreens
    /\ LET r == handleKeypress(menu, key) IN
        /\ r.kind # "resolve"
        /\ IF r.kind = "exit"
           THEN ProcessExit(0)
           ELSE /\ menu' = [menu EXCEPT !.selectedIndex = r.selectedIndex]
                /\ UNCHANGED <<pc, exitCode, listeners, savedListeners, input,
                               call>>
    /\ Consumed(pc, key)
    /\ KeepHistory
    /\ UNCHANGED <<credentials, dataVars, componentVars, filterVars>>

AccountMenuResolved(key) ==
    /\ pc = "accountMenu"
    /\ LET r == handleKeypress(menu, key)
           ls == removeListener(listeners, "menu") IN
        /\ r.kind = "resolve"
        /\ IF accountBranch(r.value) = "exit"
           THEN ThankYou
           ELSE SitesLoop(At(accounts, r.value, NoAccount), ls)
        /\ Resolved(pc, r.value)
    /\ UNCHANGED <<credentials, fresh, componentVars, filterVars>>

\* ----------------------------------------------------------- site screen
FetchSitesReturns(k) ==
    /\ pc = "fetchSites"
    /\ IF k = 0
       THEN Pause("noSites", listeners)
       ELSE PresentMenu("siteMenu", siteOptions(SiteList(k)), listeners)
    /\ sites' = SiteList(k)
    /\ UNCHANGED <<accounts, selectedAccount, selectedSite, installs,
                   selectedInstall, name, environment, confirmation>>
    /\ Quiet
    /\ KeepHistory
    /\ UNCHANGED <<credentials, componentVars, filterVars>>

FetchSitesThrows ==
    /\ pc = "fetchSites"
    /\ Fatal
    /\ Quiet
    /\ KeepHistory
    /\ UNCHANGED <<credentials, componentVars, filterVars>>

SiteMenuResolved(key) ==
    /\ pc = "siteMenu"
    /\ LET r == handleKeypress(menu, key)
           ls == removeListener(listeners, "menu")
           branch == siteBranch(r.value, menu.options) IN
        /\ r.kind = "resolve"
        /\ CASE branch = "back" -> AccountsLoop(ls)
             [] branch = "add" ->
                   /\ OpenPrompt("siteName", ls)
                   /\ UNCHANGED dataVars
             [] OTHER -> /\ InstallsLoop(At(sites, r.value, NoSite), ls)
        /\ Resolved(pc, r.value)
    /\ UNCHANGED <<credentials, fresh, componentVars, filterVars>>

\* ------------------------------------------------------ keys on a prompt
\* characters, backspace, Ctrl+C and the keys getTextInput ignores
TextKeypress(key) ==
    /\ pc \in PromptScreens
    /\ LET r == textKeypress(input, key) IN
        /\ r.kind # "resolve"
        /\ Len(r.input) <= MaxInput
        /\ IF r.kind = "exit"
           THEN ProcessExit(0)
           ELSE /\ input' = r.input
                /\ UNCHANGED <<pc, exitCode, menu, listeners, savedListeners,
                               call>>
    /\ lastEvent' = PromptEvent(pc, key)
    /\ KeepHistory
    /\ UNCHANGED <<credentials, dataVars, componentVars, filterVars>>

\* A variant: createSite is called without the typed name.
SiteNameSubmitted_noName(key) ==
    /\ pc = "siteName"
    /\ textKeypress(input, key).kind = "resolve"
    /\ Await([op |-> "createSite", accountId |-> selectedAccount.id,
              name |-> <<>>],
             getTextInput_release(listeners, savedListeners))
    /\ name' = input
    /\ fresh' = FALSE
    /\ lastEvent' = PromptEvent(pc, key)
    /\ UNCHANGED <<accounts, selectedAccount, sites, selectedSite, installs,
                   selectedInstall, environment, confirmation>>
    /\ UNCHANGED <<credentials, deleteCalls, afterConfirm, componentVars,
                   filterVars>>

\* the add-site flow: the name is typed, createSite is called
SiteNameSubmitted(key) ==
    /\ pc = "siteName"
    /\ textKeypress(input, key).kind = "resolve"
    /\ Await([op |-> "createSite", accountId |-> selectedAccount.id,
              name |-> input],
             getTextInput_release(listeners, savedListeners))
    /\ name' = input
    /\ fresh' = FALSE
    /\ lastEvent' = PromptEvent(pc, key)
    /\ UNCHANGED <<accounts, selectedAccount, sites, selectedSite, installs,
                   selectedInstall, environment, confirmation>>
    /\ UNCHANGED <<credentials, deleteCalls, afterConfirm, componentVars, filterVars>>

CreateSiteReturns ==
    /\ pc = "createSite"
    /\ Pause("siteAdded", listeners)
    /\ Quiet
    /\ KeepHistory
    /\ UNCHANGED <<credentials, dataVars, componentVars, filterVars>>

CreateSiteThrows ==
    /\ pc = "createSite"
    /\ Pause("siteFailed", listeners)
    /\ Quiet
    /\ KeepHistory
    /\ UNCHANGED <<credentials, dataVars, componentVars, filterVars>>

\* -------------------------------------------------------- install screen
FetchInstallsReturns(list) ==
    /\ pc = "fetchInstalls"
    /\ IF Len(list) = 0
       THEN PresentMenu("emptyInstallMenu", emptyInstallOptions, listeners)
       ELSE PresentMenu("installMenu", installOptions(list), listeners)
    /\ installs' = list
    /\ fresh' = TRUE
    /\ Quiet
    /\ UNCHANGED <<accounts, selectedAccount, sites, selectedSite,
                   selectedInstall, name, environment, confirmation>>
    /\ UNCHANGED <<credentials, deleteCalls, afterConfirm, componentVars, filterVars>>

FetchInstallsThrows ==
    /\ pc = "fetchInstalls"
    /\ Fatal
    /\ Quiet
    /\ KeepHistory
    /\ UNCHANGED <<credentials, componentVars, filterVars>>

EmptyInstallMenuResolved(key) ==
    /\ pc = "emptyInstallMenu"
    /\ LET r == handleKeypress(menu, key)
           ls == removeListener(listeners, "menu")
           branch == emptyInstallBranch(r.value) IN
        /\ r.kind = "resolve"
        /\ CASE branch = "back" -> SitesLoop(selectedAccount, ls)
             [] branch = "exit" -> ThankYou
             [] branch = "add" ->
                   /\ OpenPrompt("installName", ls)
                   /\ UNCHANGED dataVars
             [] OTHER -> InstallsLoop(selectedSite, ls)
        /\ Resolved(pc, r.value)
    /\ UNCHANGED <<credentials, fresh, componentVars, filterVars>>

InstallMenuResolved(key) ==
    /\ pc = "installMenu"
    /\ LET r == handleKeypress(menu, key)
           ls == removeListener(listeners, "menu")
           branch == installBranch(r.value, menu.options, installs) IN
        /\ r.kind = "resolve"
        /\ CASE branch = "back" -> SitesLoop(selectedAccount, ls)
             [] branch = "add" ->
                   /\ OpenPrompt("installName", ls)
                   /\ UNCHANGED dataVars
             [] OTHER -> ManageLoop(At(installs, r.value, NoInstall), ls)
        /\ Resolved(pc, r.value)
    /\ UNCHANGED <<credentials, fresh, componentVars, filterVars>>

\* ------------------------------------------------------- addInstallFlow
\* A variant: the environment menu is presented whatever is still free.
InstallNameSubmitted_noRejection(key) ==
    /\ pc = "installName"
    /\ textKeypress(input, key).kind = "resolve"
    /\ PresentMenu("environmentMenu", getAvailableEnvironments(installs),
                   getTextInput_release(listeners, savedListeners))
    /\ name' = input
    /\ lastEvent' = PromptEvent(pc, key)
    /\ KeepHistory
    /\ UNCHANGED <<accounts, selectedAccount, sites, selectedSite, installs,
                   selectedInstall, environment, confirmation>>
    /\ UNCHANGED <<credentials, componentVars, filterVars>>

\* the name is typed; then the environments still free are offered
InstallNameSubmitted(key) ==
    /\ pc = "installName"
    /\ textKeypress(input, key).kind = "resolve"
    /\ LET availableEnvironments == getAvailableEnvironments(installs) IN
        IF Len(availableEnvironments) = 0
        THEN Pause("noEnvironments",
                   getTextInput_release(listeners, savedListeners))
        ELSE PresentMenu("environmentMenu", availableEnvironments,
                         getTextInput_release(listeners, savedListeners))
    /\ name' = input
    /\ lastEvent' = PromptEvent(pc, key)
    /\ KeepHistory
    /\ UNCHANGED <<accounts, selectedAccount, sites, selectedSite, installs,
                   selectedInstall, environment, confirmation>>
    /\ UNCHANGED <<credentials, componentVars, filterVars>>

EnvironmentMenuResolved(key) ==
    /\ pc = "environmentMenu"
    /\ LET r == handleKeypress(menu, key)
           ls == removeListener(listeners, "menu")
           chosen == At(menu.options, r.value, "") IN
        /\ r.kind = "resolve"
        /\ IF environmentBranch(r.value) = "cancel"
           THEN /\ InstallsLoop(selectedSite, ls)
                /\ UNCHANGED fresh
           ELSE /\ Await([op |-> "createInstall", siteId |-> selectedSite.id,
                          accountId |-> selectedAccount.id, name |-> name,
                          environment |-> chosen], ls)
                /\ environment' = chosen
                /\ fresh' = FALSE
                /\ UNCHANGED <<accounts, selectedAccount, sites, selectedSite,
                               installs, selectedInstall, name, confirmation>>
        /\ Resolved(pc, r.value)
    /\ UNCHANGED <<credentials, componentVars, filterVars>>

CreateInstallReturns ==
    /\ pc = "createInstall"
    /\ Pause("installAdded", listeners)
    /\ installs' = <<>>
    /\ Quiet
    /\ KeepHistory
    /\ UNCHANGED <<accounts, selectedAccount, sites, selectedSite,
                   selectedInstall, name, environment, confirmation>>
    /\ UNCHANGED <<credentials, componentVars, filterVars>>

\* A variant: the failure is not caught in addInstallFlow.
CreateInstallThrows_uncaught ==
    /\ pc = "createInstall"
    /\ Fatal
    /\ Quiet
    /\ KeepHistory
    /\ UNCHANGED <<credentials, componentVars, filterVars>>

CreateInstallThrows ==
    /\ pc = "createInstall"
    /\ Pause("installFailed", listeners)
    /\ installs' = <<>>
    /\ Quiet
    /\ KeepHistory
    /\ UNCHANGED <<accounts, selectedAccount, sites, selectedSite,
                   selectedInstall, name, environment, confirmation>>
    /\ UNCHANGED <<credentials, componentVars, filterVars>>

\* --------------------------------------------------- install management
ManageMenuResolved(key) ==
    /\ pc = "manageMenu"
    /\ LET r == handleKeypress(menu, key)
           ls == removeListener(listeners, "menu")
           branch == manageBranch(r.value) IN
        /\ r.kind = "resolve"
        /\ CASE branch = "back" -> InstallsLoop(selectedSite, ls)
             [] branch = "delete" ->
                   /\ OpenPrompt("deleteConfirm", ls)
                   /\ UNCHANGED dataVars
             [] branch = "exit" -> ThankYou
             [] OTHER -> ManageLoop(selectedInstall, ls)
        /\ Resolved(pc, r.value)
    /\ UNCHANGED <<credentials, fresh, componentVars, filterVars>>

\* the confirmation is typed: deleteInstall is called when it is the name
DeleteConfirmSubmitted(key) ==
    /\ pc = "deleteConfirm"
    /\ textKeypress(input, key).kind = "resolve"
    /\ IF confirmationDiffers(input, selectedInstall.name)
       THEN /\ Pause("incorrectConfirmation",
                     getTextInput_release(listeners, savedListeners))
            /\ afterConfirm' = [outcome |-> "mismatch", install |-> selectedInstall]
            /\ UNCHANGED <<deleteCalls, fresh>>
       ELSE /\ Await([op |-> "deleteInstall", installId |-> selectedInstall.id],
                     getTextInput_release(listeners, savedListeners))
            /\ deleteCalls' = Append(deleteCalls, selectedInstall.id)
            /\ fresh' = FALSE
            /\ UNCHANGED afterConfirm
    /\ confirmation' = input
    /\ lastEvent' = PromptEvent(pc, key)
    /\ UNCHANGED <<accounts, selectedAccount, sites, selectedSite, installs,
                   selectedInstall, name, environment>>
    /\ UNCHANGED <<credentials, componentVars, filterVars>>

DeleteInstallReturns ==
    /\ pc = "deleteInstall"
    /\ Pause("installDeleted", listeners)
    /\ afterConfirm' = [outcome |-> "succeeded", install |-> selectedInstall]
    /\ Quiet
    /\ UNCHANGED <<credentials, dataVars, deleteCalls, fresh, componentVars, filterVars>>

DeleteInstallThrows ==
    /\ pc = "deleteInstall"
    /\ Pause("deleteFailed", listeners)
    /\ afterConfirm' = [outcome |-> "failed", install |-> selectedInstall]
    /\ Quiet
    /\ UNCHANGED <<credentials, dataVars, deleteCalls, fresh, componentVars, filterVars>>

\* -------------------------------------------------------------- pauses
\* "Press any key to continue...", then the loop the pause is in goes on
PauseToAccounts(key) ==
    /\ pc = "noSites"
    /\ pauseKeypress(key).kind = "resolve"
    /\ AccountsLoop(removeListener(listeners, "anykey"))
    /\ Consumed(pc, key)
    /\ KeepHistory
    /\ UNCHANGED <<credentials, componentVars, filterVars>>

\* A variant: the site menu is presented again from the list held.
PauseToSites_stale(key) ==
    /\ pc \in {"siteAdded", "siteFailed"}
    /\ pauseKeypress(key).kind = "resolve"
    /\ PresentMenu("siteMenu", siteOptions(sites),
                   removeListener(listeners, "anykey"))
    /\ Consumed(pc, key)
    /\ KeepHistory
    /\ UNCHANGED <<credentials, dataVars, componentVars, filterVars>>

PauseToSites(key) ==
    /\ pc \in {"siteAdded", "siteFailed"}
    /\ pauseKeypress(key).kind = "resolve"
    /\ SitesLoop(selectedAccount, removeListener(listeners, "anykey"))
    /\ Consumed(pc, key)
    /\ KeepHistory
    /\ UNCHANGED <<credentials, componentVars, filterVars>>

PauseToInstalls(key) ==
    /\ pc \in {"noEnvironments", "installAdded", "installFailed",
               "installDeleted"}
    /\ pauseKeypress(key).kind = "resolve"
    /\ InstallsLoop(selectedSite, removeListener(listeners, "anykey"))
    /\ Consumed(pc, key)
    /\ KeepHistory
    /\ UNCHANGED <<credentials, componentVars, filterVars>>

\* A variant: backToInstalls is set whatever the confirmation's outcome.
PauseToManage_back(key) ==
    /\ pc \in {"incorrectConfirmation", "deleteFailed"}
    /\ pauseKeypress(key).kind = "resolve"
    /\ InstallsLoop(selectedSite, removeListener(listeners, "anykey"))
    /\ Consumed(pc, key)
    /\ KeepHistory
    /\ UNCHANGED <<credentials, componentVars, filterVars>>

PauseToManage(key) ==
    /\ pc \in {"incorrectConfirmation", "deleteFailed"}
    /\ pauseKeypress(key).kind = "resolve"
    /\ ManageLoop(selectedInstall, removeListener(listeners, "anykey"))
    /\ Consumed(pc, key)
    /\ KeepHistory
    /\ UNCHANGED <<credentials, componentVars, filterVars>>

\* ------------------------------------------------------------------ Next
Next ==
    \/ NoCredentials
    \/ MainStarts
    \/ \E k \in 0..MaxAccounts : FetchAccountsReturns(k)
    \/ FetchAccountsThrows
    \/ \E key \in KeyEvents : MenuKeypress(key)
    \/ \E key \in KeyEvents : AccountMenuResolved(key)
    \/ \E k \in 0..MaxSites : FetchSitesReturns(k)
    \/ FetchSitesThrows
    \/ \E key \in KeyEvents : SiteMenuResolved(key)
    \/ \E key \in KeyEvents : TextKeypress(key)
    \/ \E key \in KeyEvents : SiteNameSubmitted(key)
    \/ CreateSiteReturns
    \/ CreateSiteThrows
    \/ \E list \in InstallLists : FetchInstallsReturns(list)
    \/ FetchInstallsThrows
    \/ \E key \in KeyEvents : EmptyInstallMenuResolved(key)
    \/ \E key \in KeyEvents : InstallMenuResolved(key)
    \/ \E key \in KeyEvents : InstallNameSubmitted(key)
    \/ \E key \in KeyEvents : EnvironmentMenuResolved(key)
    \/ CreateInstallReturns
    \/ CreateInstallThrows
    \/ \E key \in KeyEvents : ManageMenuResolved(key)
    \/ \E key \in KeyEvents : DeleteConfirmSubmitted(key)
    \/ DeleteInstallReturns
    \/ DeleteInstallThrows
    \/ \E key \in KeyEvents : PauseToAccounts(key)
    \/ \E key \in KeyEvents : PauseToSites(key)
    \/ \E key \in KeyEvents : PauseToInstalls(key)
    \/ \E key \in KeyEvents : PauseToManage(key)

Spec == Init /\ [][Next]_vars

\* ------------------------------------------------ createMenu on its own
\* createMenu driven by any caller: a menu of 1..MaxOptions options is
\* presented, receives key events until it resolves, and another menu may
\* then be presented.  walk records the up/down events since presentation.
OptionList(n) == [i \in 1..n |-> "option"]

MenuInit ==
    /\ pc = "componentIdle"
    /\ exitCode = -1
    /\ credentials = SomeCredentials
    /\ accounts = <<>>
    /\ selectedAccount = NoAccount
    /\ sites = <<>>
    /\ selectedSite = NoSite
    /\ installs = <<>>
    /\ selectedInstall = NoInstall
    /\ menu = NoMenu
    /\ input = <<>>
    /\ name = <<>>
    /\ environment = ""
    /\ confirmation = <<>>
    /\ listeners = <<"readline">>
    /\ savedListeners = <<>>
    /\ call = NoCall
    /\ lastEvent = NoEvent
    /\ deleteCalls = <<>>
    /\ afterConfirm = NoConfirm
    /\ fresh = FALSE
    /\ walk = <<>>
    /\ menuResult = NoResult
    /\ priorListeners = <<>>
    /\ onlyEscape = FALSE
    /\ parentId = NoId
    /\ allRecords = <<>>
    /\ filtered = <<>>
    /\ available = <<>>
    /\ allExist = FALSE

ComponentPresent(n) ==
    /\ pc \in {"componentIdle", "componentResolved"}
    /\ pc' = "componentMenu"
    /\ menu' = createMenu(OptionList(n))
    /\ listeners' = Append(listeners, "menu")
    /\ walk' = <<>>
    /\ menuResult' = NoResult
    /\ UNCHANGED <<exitCode, credentials, dataVars, input, savedListeners,
                   call, lastEvent, deleteCalls, afterConfirm, fresh,
                   priorListeners, onlyEscape, filterVars>>

ComponentKeypress(key) ==
    /\ pc = "componentMenu"
    /\ key.name \in {"up", "down"} => Len(walk) < MaxKeys
    /\ LET r == handleKeypress(menu, key) IN
        CASE r.kind = "resolve" ->
                /\ pc' = "componentResolved"
                /\ menuResult' = [by |-> key.name, value |-> r.value]
                /\ listeners' = removeListener(listeners, "menu")
                /\ UNCHANGED <<exitCode, menu, walk>>
          [] r.kind = "exit" ->
                /\ pc' = "exited"
                /\ exitCode' = 0
                /\ UNCHANGED <<menu, listeners, walk, menuResult>>
          [] OTHER ->
                /\ menu' = [menu EXCEPT !.selectedIndex = r.selectedIndex]
                /\ walk' = IF key.name \in {"up", "down"}
                           THEN Append(walk, key.name) ELSE walk
                /\ UNCHANGED <<pc, exitCode, listeners, menuResult>>
    /\ UNCHANGED <<credentials, dataVars, input, savedListeners, call,
                   lastEvent, deleteCalls, afterConfirm, fresh, priorListeners, onlyEscape,
                   filterVars>>

MenuNext ==
    \/ \E n \in 1..MaxOptions : ComponentPresent(n)
    \/ \E key \in KeyEvents : ComponentKeypress(key)

MenuSpec == MenuInit /\ [][MenuNext]_vars

\* ------------------------------------------------ getTextInput on its own
\* getTextInput called by any caller: with any list of up to MaxListeners
\* keypress listeners subscribed, it receives key events until Enter, and
\* may then be called again.  walk records the character and backspace
\* events since the call.
OtherListeners == {"readline", "data"}
ListenerLists == UNION {[1..k -> OtherListeners] : k \in 0..MaxListeners}

TextInit ==
    /\ pc = "textIdle"
    /\ exitCode = -1
    /\ credentials = SomeCredentials
    /\ accounts = <<>>
    /\ selectedAccount = NoAccount
    /\ sites = <<>>
    /\ selectedSite = NoSite
    /\ installs = <<>>
    /\ selectedInstall = NoInstall
    /\ menu = NoMenu
    /\ input = <<>>
    /\ name = <<>>
    /\ environment = ""
    /\ confirmation = <<>>
    /\ listeners \in ListenerLists
    /\ savedListeners = <<>>
    /\ call = NoCall
    /\ lastEvent = NoEvent
    /\ deleteCalls = <<>>
    /\ afterConfirm = NoConfirm
    /\ fresh = FALSE
    /\ walk = <<>>
    /\ menuResult = NoResult
    /\ priorListeners = <<>>
    /\ onlyEscape = FALSE
    /\ parentId = NoId
    /\ allRecords = <<>>
    /\ filtered = <<>>
    /\ available = <<>>
    /\ allExist = FALSE

ComponentPrompt ==
    /\ pc \in {"textIdle", "textReturned"}
    /\ OpenPrompt("textPrompt", listeners)
    /\ priorListeners' = listeners
    /\ walk' = <<>>
    /\ UNCHANGED <<credentials, dataVars, onlyEscape, lastEvent, deleteCalls, afterConfirm,
                   fresh, menuResult, filterVars>>

ComponentTextKeypress(key) ==
    /\ pc = "textPrompt"
    /\ LET r == textKeypress(input, key) IN
        CASE r.kind = "resolve" ->
                /\ pc' = "textReturned"
                /\ listeners' = getTextInput_release(listeners, savedListeners)
                /\ UNCHANGED <<exitCode, input, walk>>
          [] r.kind = "exit" ->
                /\ pc' = "exited"
                /\ exitCode' = 0
                /\ UNCHANGED <<input, listeners, walk>>
          [] r.kind = "edit" ->
                /\ Len(walk) < MaxKeys
                /\ input' = r.input
                /\ walk' = Append(walk, key.name)
                /\ UNCHANGED <<pc, exitCode, listeners>>
          [] OTHER -> UNCHANGED <<pc, exitCode, input, listeners, walk>>
    /\ UNCHANGED <<credentials, dataVars, menu, savedListeners, call,
                   lastEvent, deleteCalls, afterConfirm, fresh, menuResult,
                   priorListeners, onlyEscape, filterVars>>

TextNext ==
    \/ ComponentPrompt
    \/ \E key \in KeyEvents : ComponentTextKeypress(key)

TextSpec == TextInit /\ [][TextNext]_vars

\* ------------------------------------------- keys during a gateway call
\* process.stdin emits keypress events at any time, also while main awaits
\* a gateway call: the event is delivered to the application handler that
\* is subscribed then, if one is (readline's own listener changes nothing
\* of the application's).
KeypressWhileAwaiting(key) ==
    /\ pc \in GatewayWaits
    /\ CASE includes(listeners, "menu") ->
                LET r == handleKeypress(menu, key) IN
                IF r.kind = "exit"
                THEN ProcessExit(0)
                ELSE /\ menu' = [menu EXCEPT !.selectedIndex = r.selectedIndex]
                     /\ listeners' = IF r.kind = "resolve"
                                     THEN removeListener(listeners, "menu")
                                     ELSE listeners
                     /\ UNCHANGED <<pc, exitCode, savedListeners, input, call>>
          [] includes(listeners, "text") ->
                LET r == textKeypress(input, key) IN
                IF r.kind = "exit"
                THEN ProcessExit(0)
                ELSE /\ Len(r.input) <= MaxInput
                     /\ input' = r.input
                     /\ listeners' =
                            IF r.kind = "resolve"
                            THEN getTextInput_release(listeners, savedListeners)
                            ELSE listeners
                     /\ UNCHANGED <<pc, exitCode, menu, savedListeners, call>>
          [] includes(listeners, "anykey") ->
                /\ listeners' = removeListener(listeners, "anykey")
                /\ UNCHANGED <<pc, exitCode, menu, savedListeners, input, call>>
          [] OTHER ->
                UNCHANGED <<pc, exitCode, menu, listeners, savedListeners,
                            input, call>>
    /\ lastEvent' = KeyEvent(pc)
    /\ KeepHistory
    /\ UNCHANGED <<credentials, dataVars, componentVars, filterVars>>

AwaitNext ==
    \/ Next
    \/ \E key \in KeyEvents : KeypressWhileAwaiting(key)

AwaitSpec == Init /\ [][AwaitNext]_vars

\* ------------------------------------------------------ only Escape
\* main used in any way up to a menu or a pause that waits for a key, and
\* from there on by a user who presses no key but Escape, while the
\* gateway answers every call.
OnlyEscapeFromHere ==
    /\ pc \in MenuScreens \cup PauseScreens
    /\ ~onlyEscape
    /\ onlyEscape' = TRUE
    /\ UNCHANGED <<credentials, dataVars, pc, exitCode, menu, input, listeners,
                   savedListeners, call, lastEvent, deleteCalls, afterConfirm,
                   fresh, walk, menuResult, priorListeners, filterVars>>

EscapePressed ==
    \/ AccountMenuResolved(KeyEscape)
    \/ SiteMenuResolved(KeyEscape)
    \/ EmptyInstallMenuResolved(KeyEscape)
    \/ InstallMenuResolved(KeyEscape)
    \/ EnvironmentMenuResolved(KeyEscape)
    \/ ManageMenuResolved(KeyEscape)
    \/ PauseToAccounts(KeyEscape)
    \/ PauseToSites(KeyEscape)
    \/ PauseToInstalls(KeyEscape)
    \/ PauseToManage(KeyEscape)

GatewayAnswers ==
    \/ \E k \in 0..MaxAccounts : FetchAccountsReturns(k)
    \/ FetchAccountsThrows
    \/ \E k \in 0..MaxSites : FetchSitesReturns(k)
    \/ FetchSitesThrows
    \/ \E list \in InstallLists : FetchInstallsReturns(list)
    \/ FetchInstallsThrows

EscapeNext ==
    \/ ~onlyEscape /\ Next
    \/ OnlyEscapeFromHere
    \/ onlyEscape /\ EscapePressed
    \/ onlyEscape /\ GatewayAnswers

\* the user goes on pressing Escape, and every gateway call is answered
EscapeSpec ==
    /\ Init
    /\ [][EscapeNext]_vars
    /\ WF_vars(onlyEscape /\ (EscapePressed \/ GatewayAnswers))

\* ------------------------------------ the environment helpers on their own
\* getAvailableEnvironments and allEnvironmentsExist called with any list of
\* up to MaxListed installs, whatever the gateway reports as their
\* environment: a known value, another string, or none.  An environment
\* that is missing reads as undefined, which includes() finds equal to no
\* string; Missing stands for it.
Missing == "(undefined)"
ReportedEnvironments == Environments \cup {"qa", "Production", "", Missing}
\* the list of k installs with the environments e[1], ..., e[k]
Reported(k, e) ==
    [i \in 1..k |-> [id |-> i, name |-> InstallName(i), environment |-> e[i]]]

HelpersInit ==
    /\ pc = "helpers"
    /\ exitCode = -1
    /\ credentials = SomeCredentials
    /\ accounts = <<>>
    /\ selectedAccount = NoAccount
    /\ sites = <<>>
    /\ selectedSite = NoSite
    /\ \E k \in 0..MaxListed :
          \E e \in [1..k -> ReportedEnvironments] : installs = Reported(k, e)
    /\ selectedInstall = NoInstall
    /\ menu = NoMenu
    /\ input = <<>>
    /\ name = <<>>
    /\ environment = ""
    /\ confirmation = <<>>
    /\ listeners = <<"readline">>
    /\ savedListeners = <<>>
    /\ call = NoCall
    /\ lastEvent = NoEvent
    /\ deleteCalls = <<>>
    /\ afterConfirm = NoConfirm
    /\ fresh = FALSE
    /\ walk = <<>>
    /\ menuResult = NoResult
    /\ priorListeners = <<>>
    /\ onlyEscape = FALSE
    /\ parentId = NoId
    /\ allRecords = <<>>
    /\ filtered = <<>>
    /\ available = <<>>
    /\ allExist = FALSE

HelpersCalled ==
    /\ pc = "helpers"
    /\ pc' = "helpersReturned"
    /\ available' = getAvailableEnvironments(installs)
    /\ allExist' = allEnvironmentsExist(installs)
    /\ UNCHANGED <<exitCode, credentials, dataVars, menu, input, listeners,
                   savedListeners, call, lastEvent, deleteCalls, afterConfirm,
                   fresh, componentVars, parentId, allRecords, filtered>>

HelpersNext == HelpersCalled

HelpersSpec == HelpersInit /\ [][HelpersNext]_vars

\* ---------------------------------------- the membership filter on its own
\* fetchSitesByAccount / fetchInstallsBySite called with an id: the gateway
\* answers with any list of up to MaxRecords records and the filter is
\* applied to it.
FilterInit ==
    /\ pc \in {"fetchSitesByAccount", "fetchInstallsBySite"}
    /\ exitCode = -1
    /\ credentials = SomeCredentials
    /\ accounts = <<>>
    /\ selectedAccount = NoAccount
    /\ sites = <<>>
    /\ selectedSite = NoSite
    /\ installs = <<>>
    /\ selectedInstall = NoInstall
    /\ menu = NoMenu
    /\ input = <<>>
    /\ name = <<>>
    /\ environment = ""
    /\ confirmation = <<>>
    /\ listeners = <<"readline">>
    /\ savedListeners = <<>>
    /\ call = NoCall
    /\ lastEvent = NoEvent
    /\ deleteCalls = <<>>
    /\ afterConfirm = NoConfirm
    /\ fresh = FALSE
    /\ walk = <<>>
    /\ menuResult = NoResult
    /\ priorListeners = <<>>
    /\ onlyEscape = FALSE
    /\ parentId \in {Str(i) : i \in Ids}
    /\ allRecords = <<>>
    /\ filtered = <<>>
    /\ available = <<>>
    /\ allExist = FALSE

FetchSitesResolves ==
    /\ pc = "fetchSitesByAccount"
    /\ pc' = "sitesFiltered"
    /\ \E allSites \in ListsOf(SiteRecords) :
          /\ allRecords' = allSites
          /\ filtered' = fetchSitesByAccount(allSites, parentId)
    /\ UNCHANGED <<exitCode, credentials, dataVars, menu, input, listeners,
                   savedListeners, call, lastEvent, deleteCalls, afterConfirm,
                   fresh, componentVars, parentId, helperVars>>

FetchInstallsResolves ==
    /\ pc = "fetchInstallsBySite"
    /\ pc' = "installsFiltered"
    /\ \E allInstalls \in ListsOf(InstallRecords) :
          /\ allRecords' = allInstalls
          /\ filtered' = fetchInstallsBySite(allInstalls, parentId)
    /\ UNCHANGED <<exitCode, credentials, dataVars, menu, input, listeners,
                   savedListeners, call, lastEvent, deleteCalls, afterConfirm,
                   fresh, componentVars, parentId, helperVars>>

FilterNext ==
    \/ FetchSitesResolves
    \/ FetchInstallsResolves

FilterSpec == FilterInit /\ [][FilterNext]_vars

\* -------------------------------------------- addInstallFlow on its own
\* addInstallFlow called by any caller: with any install list, the lists
\* covering the three environments included.  Once the flow has returned
\* the caller's loop awaits the installs again, where this specification
\* ends.
AddInstallInit ==
    /\ pc = "addInstallFlow"
    /\ exitCode = -1
    /\ credentials = SomeCredentials
    /\ accounts = <<>>
    /\ selectedAccount = [id |-> 1]
    /\ sites = <<>>
    /\ selectedSite = [id |-> 1]
    /\ installs \in InstallLists
    /\ selectedInstall = NoInstall
    /\ menu = NoMenu
    /\ input = <<>>
    /\ name = <<>>
    /\ environment = ""
    /\ confirmation = <<>>
    /\ listeners = <<"readline">>
    /\ savedListeners = <<>>
    /\ call = NoCall
    /\ lastEvent = NoEvent
    /\ deleteCalls = <<>>
    /\ afterConfirm = NoConfirm
    /\ fresh = TRUE
    /\ walk = <<>>
    /\ menuResult = NoResult
    /\ priorListeners = <<>>
    /\ onlyEscape = FALSE
    /\ parentId = NoId
    /\ allRecords = <<>>
    /\ filtered = <<>>
    /\ available = <<>>
    /\ allExist = FALSE

\* const name = await promptForField("name")
AddInstallFlowEntered ==
    /\ pc = "addInstallFlow"
    /\ OpenPrompt("installName", listeners)
    /\ Quiet
    /\ KeepHistory
    /\ UNCHANGED <<credentials, dataVars, componentVars, filterVars>>

AddInstallNext ==
    \/ AddInstallFlowEntered
    \/ \E key \in KeyEvents : TextKeypress(key)
    \/ \E key \in KeyEvents : InstallNameSubmitted(key)
    \/ \E key \in KeyEvents : MenuKeypress(key)
    \/ \E key \in KeyEvents : EnvironmentMenuResolved(key)
    \/ CreateInstallReturns
    \/ CreateInstallThrows
    \/ \E key \in KeyEvents : PauseToInstalls(key)

AddInstallSpec == AddInstallInit /\ [][AddInstallNext]_vars

\* ================================================================ claims
Max(a, b) == IF a >= b THEN a ELSE b
Min(a, b) == IF a <= b THEN a ELSE b
Environment(list) == {list[i].environment : i \in 1..Len(list)}
Position(e) == CHOOSE i \in 1..Len(ALL_ENVIRONMENTS) : ALL_ENVIRONMENTS[i] = e

\* C1: a delete confirmation calls deleteInstall exactly once, with the
\* install's id, when the typed text equals the install's name, and not at
\* all when the text differs from it in any way.
C1_DeleteOnlyOnExactName ==
    /\ pc = "deleteConfirm" => deleteCalls = <<>>
    /\ pc \in {"incorrectConfirmation", "deleteInstall", "installDeleted",
               "deleteFailed"} =>
          IF confirmation = selectedInstall.name
          THEN deleteCalls = <<selectedInstall.id>>
          ELSE deleteCalls = <<>>
    /\ pc = "incorrectConfirmation" => confirmation # selectedInstall.name
    /\ pc = "deleteInstall" =>
          /\ call.op = "deleteInstall"
          /\ call.installId = selectedInstall.id
          /\ confirmation = selectedInstall.name

C1_Witness ==
    /\ pc = "installDeleted"
    /\ confirmation = <<"A", "a">>
    /\ deleteCalls = <<selectedInstall.id>>

\* C2: the screen presented next after a delete confirmation is the install
\* selection, built from a list fetched after the delete, exactly when
\* deleteInstall was called and succeeded; after a failed delete or a
\* mismatched confirmation it is the management menu of the same install.
C2_NextScreenAfterConfirmation ==
    (pc \in MenuScreens /\ afterConfirm.outcome # "none") =>
        /\ pc \in {"installMenu", "emptyInstallMenu", "manageMenu"}
        /\ pc \in {"installMenu", "emptyInstallMenu"}
              <=> afterConfirm.outcome = "succeeded"
        /\ afterConfirm.outcome = "succeeded" =>
              /\ fresh
              /\ deleteCalls = <<afterConfirm.install.id>>
        /\ afterConfirm.outcome \in {"mismatch", "failed"} =>
              /\ pc = "manageMenu"
              /\ selectedInstall = afterConfirm.install

C2_Witness ==
    /\ pc = "installMenu"
    /\ afterConfirm.outcome = "succeeded"
    /\ fresh

\* C3: with n >= 1 options the highlighted index stays within 0..n-1 under
\* every sequence of up and down keys; up on the first option and down on
\* the last one leave it where it is.
C3_IndexInRange ==
    pc = "componentMenu" =>
        menu.selectedIndex \in 0..(Len(menu.options) - 1)

C3_NoWraparound ==
    (pc = "componentMenu" /\ pc' = "componentMenu" /\ walk' # walk) =>
        LET key == walk'[Len(walk')]
            last == Len(menu.options) - 1 IN
        /\ (key = "up" /\ menu.selectedIndex = 0) => menu'.selectedIndex = 0
        /\ (key = "down" /\ menu.selectedIndex = last)
              => menu'.selectedIndex = last
        /\ (key = "up" /\ menu.selectedIndex > 0)
              => menu'.selectedIndex = menu.selectedIndex - 1
        /\ (key = "down" /\ menu.selectedIndex < last)
              => menu'.selectedIndex = menu.selectedIndex + 1

\* C3, as one formula: the index is always in range and no step wraps it.
C3_IndexClamped == [](C3_IndexInRange) /\ [][C3_NoWraparound]_vars

C3_Witness ==
    /\ pc = "componentMenu"
    /\ Len(menu.options) = 2
    /\ walk = <<"down", "down", "down">>
    /\ menu.selectedIndex = 1

\* the index a clamped walk of up/down events from 0 ends on, n options
RECURSIVE ClampedWalk(_, _)
ClampedWalk(w, n) ==
    IF w = <<>> THEN 0
    ELSE LET before == ClampedWalk(SubSeq(w, 1, Len(w) - 1), n) IN
         IF w[Len(w)] = "up" THEN Max(before - 1, 0)
         ELSE Min(before + 1, n - 1)

\* C4: a menu is presented with index 0 highlighted, whatever was
\* highlighted before, and Enter resolves with the index the clamped walk
\* of the up/down events since presentation ends on, a valid index.
C4_EnterResolvesWithWalk ==
    /\ pc = "componentMenu" =>
          menu.selectedIndex = ClampedWalk(walk, Len(menu.options))
    /\ (pc = "componentResolved" /\ menuResult.by = "return") =>
          /\ menuResult.value = ClampedWalk(walk, Len(menu.options))
          /\ menuResult.value \in 0..(Len(menu.options) - 1)

C4_Witness ==
    /\ pc = "componentResolved"
    /\ menuResult.by = "return"
    /\ Len(menu.options) = 3
    /\ walk = <<"down", "down", "up">>
    /\ menuResult.value = 1

\* C5: for every number of options, what Escape resolves with differs from
\* everything Enter can resolve with on that menu.
C5_EscapeIsNoIndex ==
    (pc = "componentResolved" /\ menuResult.by = "escape") =>
        \A i \in 0..(Len(menu.options) - 1) :
            menuResult.value #
                handleKeypress([menu EXCEPT !.selectedIndex = i], KeyReturn).value

C5_Witness ==
    /\ pc = "componentResolved"
    /\ menuResult.by = "escape"
    /\ Len(menu.options) = 1

\* C6: a Ctrl+C key event at a menu, a text prompt or a pause ends the
\* process with exit code 0.
C6_InterruptTerminates ==
    lastEvent.type = "interrupt" => (pc = "exited" /\ exitCode = 0)

\* the menus that have a Back option, the label of each, and where it leads
BackScreens == {"siteMenu", "emptyInstallMenu", "installMenu", "manageMenu"}
BackLabel(screen) ==
    CASE screen = "siteMenu" -> BACK_TO_ACCOUNTS
      [] screen \in {"emptyInstallMenu", "installMenu"} -> BACK_TO_SITES
      [] OTHER -> BACK_TO_INSTALLS
BackIndex ==
    CHOOSE i \in 0..(Len(menu.options) - 1) : menu.options[i + 1] = BackLabel(pc)
EscapeValue == handleKeypress(menu, KeyEscape).value
BranchOf(screen, value) ==
    CASE screen = "siteMenu" -> siteBranch(value, menu.options)
      [] screen = "emptyInstallMenu" -> emptyInstallBranch(value)
      [] screen = "installMenu" -> installBranch(value, menu.options, installs)
      [] OTHER -> manageBranch(value)
ParentCall(screen) ==
    CASE screen = "siteMenu" -> [op |-> "fetchAccounts"]
      [] screen \in {"emptyInstallMenu", "installMenu"} ->
            [op |-> "fetchSites", accountId |-> selectedAccount.id]
      [] OTHER -> [op |-> "fetchInstalls", siteId |-> selectedSite.id]

C7_SameBranch ==
    pc \in BackScreens =>
        /\ includes(menu.options, BackLabel(pc))
        /\ BranchOf(pc, EscapeValue) = BranchOf(pc, BackIndex)

C7_BackToParent ==
    (/\ pc \in BackScreens
     /\ lastEvent'.type = "menu"
     /\ lastEvent'.screen = pc
     /\ lastEvent'.value \in {EscapeValue, BackIndex}) =>
        /\ pc' = ParentCall(pc).op
        /\ call' = ParentCall(pc)
        /\ pc # "siteMenu" => selectedAccount' = selectedAccount
        /\ pc = "manageMenu" => selectedSite' = selectedSite

\* C7: on every menu with a Back option, Escape takes the branch Back
\* takes, and that branch loads the parent screen for the same selected
\* account and site.
C7_EscapeIsBack == [](C7_SameBranch) /\ [][C7_BackToParent]_vars

C7_Witness ==
    /\ lastEvent = MenuEvent("manageMenu", -1)
    /\ pc = "fetchInstalls"
    /\ selectedSite.id = 2

\* C8: the install selection menu holds the Add-install option exactly
\* when the fetched installs leave one of production, staging and
\* development uncovered.
C8_AddInstallOffered ==
    pc \in {"emptyInstallMenu", "installMenu"} =>
        (includes(menu.options, ADD_INSTALL)
            <=> ~({"production", "staging", "development"}
                      \subseteq Environment(installs)))

C8_Witness ==
    /\ pc = "installMenu"
    /\ Len(installs) = 3
    /\ Environment(installs) = {"production", "staging"}
    /\ includes(menu.options, ADD_INSTALL)

\* offered is the list of the known environments no install of list has,
\* in the order production, staging, development
Remaining(offered, list) ==
    /\ \A e \in {"production", "staging", "development"} :
          includes(offered, e) <=> e \notin Environment(list)
    /\ \A i \in 1..Len(offered) :
          offered[i] \in {"production", "staging", "development"}
    /\ \A i, j \in 1..Len(offered) :
          i < j => Position(offered[i]) < Position(offered[j])

\* C9: for every fetched install list the environments the Add-install
\* flow offers are exactly the known ones no install has, in the fixed
\* order.
C9_OffersRemainingEnvironments ==
    /\ pc \in {"emptyInstallMenu", "installMenu", "installName",
               "environmentMenu"} =>
          Remaining(getAvailableEnvironments(installs), installs)
    /\ pc = "environmentMenu" => Remaining(menu.options, installs)

C9_Witness ==
    /\ pc = "environmentMenu"
    /\ Environment(installs) = {"production", "staging"}
    /\ menu.options = <<"development">>

\* C10: createInstall is never called with an environment that an install
\* of the list fetched on this entry of the install selection has.
C10_NoSecondInstallOfEnvironment ==
    pc = "createInstall" =>
        /\ call.op = "createInstall"
        /\ call.environment = environment
        /\ call.environment \in {"production", "staging", "development"}
        /\ \A i \in 1..Len(installs) :
              installs[i].environment # call.environment

C10_Witness ==
    /\ pc = "createInstall"
    /\ Len(installs) = 2
    /\ call.environment = "staging"

\* the installs the add-install flow was entered with cover every
\* environment
AllCovered ==
    {"production", "staging", "development"} \subseteq Environment(installs)

C11_NoCallWhenCovered ==
    AllCovered =>
        /\ pc \in {"addInstallFlow", "installName", "noEnvironments", "exited"}
        /\ call = NoCall
        /\ menu = NoMenu

C11_RejectionReturns ==
    (pc = "noEnvironments" /\ pc' # pc) =>
        /\ pc' = "fetchInstalls"
        /\ call' = [op |-> "fetchInstalls", siteId |-> selectedSite.id]

\* C11: when addInstallFlow is entered with installs covering production,
\* staging and development, no environment is offered and createInstall is
\* not called: the flow shows the "All environments already exist" pause
\* and returns to the caller's install loop.
C11_EntryRejected ==
    [](C11_NoCallWhenCovered) /\ [][C11_RejectionReturns]_vars

C11_Witness ==
    /\ pc = "noEnvironments"
    /\ AllCovered
    /\ name = <<"a">>
    /\ call = NoCall

\* the screens of the site selection and of the install selection, which
\* main reaches with the list a drill-down yielded
SiteScreens == {"noSites", "siteMenu"}
InstallScreens == {"emptyInstallMenu", "installMenu"}

\* C12: when a drill-down yields no site, or no install, the screen is a
\* menu that offers the Add option of its level together with Back and
\* Exit.
C12_EmptyListOffersAdd ==
    /\ (pc \in SiteScreens /\ Len(sites) = 0) =>
          /\ pc \in MenuScreens
          /\ includes(menu.options, ADD_SITE)
          /\ includes(menu.options, BACK_TO_ACCOUNTS)
          /\ includes(menu.options, EXIT)
    /\ (pc \in InstallScreens /\ Len(installs) = 0) =>
          /\ pc \in MenuScreens
          /\ includes(menu.options, ADD_INSTALL)
          /\ includes(menu.options, BACK_TO_SITES)
          /\ includes(menu.options, EXIT)

\* where each option of the no-installs menu leads
C13_OptionsLead ==
    (pc = "emptyInstallMenu" /\ lastEvent'.type = "menu"
        /\ lastEvent'.screen = "emptyInstallMenu") =>
        LET chosen == At(menu.options, lastEvent'.value, "") IN
        /\ chosen = ADD_INSTALL =>
              /\ pc' = "installName"
              /\ listeners' = <<"text">>
              /\ installs' = installs
        /\ chosen = BACK_TO_SITES =>
              /\ pc' = "fetchSites"
              /\ call' = [op |-> "fetchSites", accountId |-> selectedAccount.id]
        /\ chosen = EXIT =>
              /\ pc' = "exited"
              /\ exitCode' = 0

C13_ThreeOptions ==
    /\ (pc \in InstallScreens /\ Len(installs) = 0) => pc = "emptyInstallMenu"
    /\ pc = "emptyInstallMenu" =>
          /\ Len(installs) = 0
          /\ menu.options = <<"+ Add install", "<- Back to site selection", "Exit">>

\* C13: for a site without installs the menu is exactly Add install, Back,
\* Exit in this order; Add install opens the add-install flow, Back loads
\* the site selection of the same account, Exit ends the process.
C13_EmptyInstallMenu == [](C13_ThreeOptions) /\ [][C13_OptionsLead]_vars

C13_Witness ==
    /\ lastEvent = MenuEvent("emptyInstallMenu", 2)
    /\ pc = "exited"
    /\ exitCode = 0

\* C14: the menu of the install selection offers Exit for every install
\* list, and selecting Exit ends the process.
C14_ExitOffered ==
    pc \in InstallScreens =>
        /\ includes(menu.options, EXIT)
        /\ \A i \in 0..(Len(menu.options) - 1) :
              menu.options[i + 1] = EXIT =>
                  IF pc = "emptyInstallMenu"
                  THEN emptyInstallBranch(i) = "exit"
                  ELSE installBranch(i, menu.options, installs) = "exit"

\* a listing call for sites or installs fails
ListingFails == FetchSitesThrows \/ FetchInstallsThrows

C15_FailureShown ==
    ListingFails =>
        /\ pc' \in PauseScreens
        /\ exitCode' = -1

\* C15: a failing listing call for sites or installs does not end the
\* process: the failure is shown with a pause, from which the flow goes
\* back to the screen that issued the call.
C15_ListFailureRecoverable == [][C15_FailureShown]_vars

\* a call of createSite, createInstall or deleteInstall fails
MutationFails == CreateSiteThrows \/ CreateInstallThrows \/ DeleteInstallThrows
FailedPauses == {"siteFailed", "installFailed", "deleteFailed"}

C16_FailureCaught ==
    MutationFails =>
        /\ exitCode' = -1
        /\ pc' = CASE pc = "createSite" -> "siteFailed"
                   [] pc = "createInstall" -> "installFailed"
                   [] OTHER -> "deleteFailed"
        /\ listeners' = <<"readline", "anykey">>

C16_BackWhereStarted ==
    (pc \in FailedPauses /\ pc' # pc) =>
        /\ exitCode' = -1
        /\ pc = "siteFailed" =>
              /\ pc' = "fetchSites"
              /\ call' = [op |-> "fetchSites", accountId |-> selectedAccount.id]
              /\ selectedAccount' = selectedAccount
        /\ pc = "installFailed" =>
              /\ pc' = "fetchInstalls"
              /\ call' = [op |-> "fetchInstalls", siteId |-> selectedSite.id]
              /\ selectedSite' = selectedSite
        /\ pc = "deleteFailed" =>
              /\ pc' = "manageMenu"
              /\ menu'.options = managementOptions
              /\ selectedInstall' = selectedInstall

\* C16: a failing createSite, createInstall or deleteInstall does not end
\* the process: the failure is shown with a pause, and the key press leads
\* to the screen the flow started from (the site selection of the same
\* account, the install selection of the same site, the management menu of
\* the same install).
C16_MutationFailureCaught ==
    [][C16_FailureCaught]_vars /\ [][C16_BackWhereStarted]_vars

C16_Witness ==
    /\ pc = "manageMenu"
    /\ afterConfirm.outcome = "failed"
    /\ selectedInstall = afterConfirm.install
    /\ exitCode = -1

\* the steps at which main ends with a failure: no credentials, no
\* accounts, and the exceptions that reach main's catch
FatalStep ==
    \/ NoCredentials
    \/ FetchAccountsReturns(0)
    \/ FetchAccountsThrows
    \/ FetchSitesThrows
    \/ FetchInstallsThrows

\* the steps at which the user quits: Escape on the account menu, an Exit
\* option, Ctrl+C
QuitStep ==
    \/ lastEvent'.type = "interrupt"
    \/ /\ lastEvent'.type = "menu"
       /\ \/ lastEvent' = MenuEvent("accountMenu", -1)
          \/ At(menu.options, lastEvent'.value, "") = EXIT

C17_ExitStep ==
    (pc # "exited" /\ pc' = "exited") =>
        /\ exitCode = -1
        /\ exitCode' \in {0, 1}
        /\ exitCode' = 1 <=> FatalStep
        /\ exitCode' = 0 <=> QuitStep

\* C17: the process ends with code 1 exactly when the credentials are
\* missing, when no account is returned, or when an exception reaches
\* main's catch; every other end (Escape on the account menu, an Exit
\* option, Ctrl+C) has code 0.
C17_ExitCodes ==
    [](pc = "exited" <=> exitCode \in {0, 1}) /\ [][C17_ExitStep]_vars

C17_Witness ==
    /\ pc = "exited"
    /\ exitCode = 1
    /\ selectedSite.id = 1

\* one of the two credential variables is absent or empty
CredentialMissing ==
    \/ credentials.WP_ENGINE_API_USER_ID \in {Unset, ""}
    \/ credentials.WP_ENGINE_API_PASSWORD \in {Unset, ""}

\* C18: with a credential variable absent or empty the process ends with
\* exit code 1 at its first step: no request is ever under way, no menu is
\* ever presented and no key handler is ever subscribed.
C18_NoCredentialsIsFatal ==
    CredentialMissing =>
        /\ pc \in {"main", "exited"}
        /\ pc = "exited" => exitCode = 1
        /\ call = NoCall
        /\ menu = NoMenu
        /\ listeners = <<"readline">>

C18_Witness ==
    /\ pc = "exited"
    /\ exitCode = 1
    /\ credentials.WP_ENGINE_API_USER_ID = "secret"
    /\ credentials.WP_ENGINE_API_PASSWORD = ""

\* the record names the requested parent as a bare id, as the id of a
\* nested object, or under the alternate key
References(parent, alternate, id) ==
    \/ parent = [type |-> "string", value |-> id]
    \/ parent = [type |-> "object", id |-> [type |-> "string", value |-> id]]
    \/ alternate = [type |-> "string", value |-> id]

ReferencingSites ==
    SelectSeq(allRecords,
              LAMBDA r : References(r.account, r.accountId, parentId.value))
ReferencingInstalls ==
    SelectSeq(allRecords,
              LAMBDA r : References(r.site, r.siteId, parentId.value))

\* C19: the membership filter returns, in their order, exactly the records
\* that name the requested parent id as a bare id, as a nested object's
\* id, or under the alternate key, for sites and for installs alike; a
\* record that names only other ids, or none, is left out.
C19_MembershipFilter ==
    /\ pc = "sitesFiltered" => filtered = ReferencingSites
    /\ pc = "installsFiltered" => filtered = ReferencingInstalls

C19_Witness ==
    /\ pc = "sitesFiltered"
    /\ parentId = Str("A1")
    /\ allRecords =
          << [account |-> Obj(Str("A1")), accountId |-> Undefined],
             [account |-> Str("A2"), accountId |-> Undefined],
             [account |-> Undefined, accountId |-> Str("A1")] >>
    /\ filtered =
          << [account |-> Obj(Str("A1")), accountId |-> Undefined],
             [account |-> Undefined, accountId |-> Str("A1")] >>

\* the application's keypress handlers among the subscribed listeners, in
\* their order
AppHandlers == SelectSeq(listeners, LAMBDA h : h \in {"menu", "text", "anykey"})

C20_AtMostOne == Len(AppHandlers) <= 1

C20_OneWhileWaiting ==
    /\ pc \in MenuScreens => AppHandlers = <<"menu">>
    /\ pc \in PromptScreens => AppHandlers = <<"text">>
    /\ pc \in PauseScreens => AppHandlers = <<"anykey">>
    /\ pc \in GatewayWaits \cup {"main"} => AppHandlers = <<>>

\* a step that subscribes a handler finds no other handler subscribed
C20_NoSecondStarted ==
    (listeners' # listeners /\ AppHandlers' # <<>>) =>
        \/ AppHandlers = <<>>
        \/ /\ Len(AppHandlers) = 1
           /\ Len(AppHandlers') = 1
           /\ AppHandlers' # AppHandlers

\* C20: at most one of the menu, text-input and press-any-key handlers is
\* subscribed to the keypress events at any time, exactly one (the one of
\* the screen) while the program waits for a key, and none is subscribed
\* next to another.
C20_SingleHandler ==
    [](C20_AtMostOne /\ C20_OneWhileWaiting) /\ [][C20_NoSecondStarted]_vars

C20_Witness ==
    /\ pc = "deleteConfirm"
    /\ listeners = <<"text">>
    /\ savedListeners = <<"readline">>
    /\ input = <<"a">>

\* C21: when getTextInput returns, its own handler is not subscribed and
\* the keypress listeners are those subscribed when it was called, in the
\* same order.
C21_ListenersRestored ==
    pc = "textReturned" =>
        /\ listeners = priorListeners
        /\ ~includes(listeners, "text")

C21_Witness ==
    /\ pc = "textReturned"
    /\ priorListeners = <<"data", "readline">>
    /\ listeners = <<"data", "readline">>
    /\ input = <<"a">>

\* the string a sequence of character and backspace events leaves: each
\* character appended, each backspace removing the last character, if any
RECURSIVE Typed(_)
Typed(w) ==
    IF w = <<>> THEN <<>>
    ELSE LET before == Typed(SubSeq(w, 1, Len(w) - 1))
             key == w[Len(w)] IN
         IF key = "backspace"
         THEN (IF before = <<>> THEN <<>>
               ELSE SubSeq(before, 1, Len(before) - 1))
         ELSE before \o <<key>>

\* C22: for every sequence of character and backspace events followed by
\* Enter, getTextInput returns the string of the characters appended in
\* turn with each backspace removing the last one, a backspace on the
\* empty buffer changing nothing.
C22_ReturnsTyped ==
    /\ pc = "textPrompt" => input = Typed(walk)
    /\ pc = "textReturned" => input = Typed(walk)

C22_Witness ==
    /\ pc = "textReturned"
    /\ walk = <<"backspace", "a", "backspace">>
    /\ input = <<>>

SelectionMenus == {"siteMenu", "emptyInstallMenu", "installMenu"}
MutationCalls == {"createSite", "createInstall", "deleteInstall"}

\* a selection menu is presented by the step that receives the answer of
\* the list call for its parent, and shows that answer
C23_PresentedFromAnswer ==
    (pc' \in SelectionMenus /\ pc' # pc) =>
        IF pc' = "siteMenu"
        THEN /\ pc = "fetchSites"
             /\ call = [op |-> "fetchSites", accountId |-> selectedAccount.id]
             /\ selectedAccount' = selectedAccount
             /\ menu'.options = siteOptions(sites')
        ELSE /\ pc = "fetchInstalls"
             /\ call = [op |-> "fetchInstalls", siteId |-> selectedSite.id]
             /\ selectedSite' = selectedSite
             /\ menu'.options = IF Len(installs') = 0 THEN emptyInstallOptions
                                ELSE installOptions(installs')

\* the list call is issued by the step before: no selection menu and no
\* create or delete call lies between its issue and its answer
C23_IssuedJustBefore ==
    (pc' \in {"fetchSites", "fetchInstalls"} /\ pc' # pc) =>
        /\ call'.op = pc'
        /\ call # call'
        /\ sites' = <<>>
        /\ installs' = <<>>

C23_ListHeld ==
    /\ pc \in {"fetchSites", "fetchInstalls"} =>
          (call.op = pc /\ menu = NoMenu /\ installs = <<>>)
    /\ pc = "fetchSites" => sites = <<>>
    /\ pc \in MutationCalls => call.op = pc
    /\ pc \in InstallScreens => fresh

\* C23: every presentation of the site or install selection menu shows the
\* answer of a list call for its parent issued after the last create or
\* delete call and after the menu's previous presentation.
C23_FetchedBeforeShown ==
    /\ [](C23_ListHeld)
    /\ [][C23_PresentedFromAnswer /\ C23_IssuedJustBefore]_vars

C23_Witness ==
    /\ pc = "emptyInstallMenu"
    /\ afterConfirm.outcome = "succeeded"
    /\ fresh

\* "+ Add site" is selected: the name prompt opens, no call is made yet
C24_Prompted ==
    (/\ pc = "siteMenu"
     /\ lastEvent'.type = "menu"
     /\ At(menu.options, lastEvent'.value, "") = ADD_SITE) =>
        /\ pc' = "siteName"
        /\ input' = <<>>
        /\ call' = NoCall

\* Enter on the prompt: createSite is called with the account's id and the
\* typed text; nothing else calls createSite
C24_Called ==
    /\ (pc = "siteName" /\ pc' \notin {"siteName", "exited"}) =>
          /\ pc' = "createSite"
          /\ call' = [op |-> "createSite", accountId |-> selectedAccount.id,
                      name |-> input]
    /\ (call' # call /\ call'.op = "createSite") => pc = "siteName"

\* the call's answer, success or failure, is shown; the key press then
\* loads the sites of the same account again
C24_Returned ==
    /\ (pc = "createSite" /\ pc' # pc) =>
          /\ pc' \in {"siteAdded", "siteFailed"}
          /\ call' = NoCall
    /\ (pc \in {"siteAdded", "siteFailed"} /\ pc' # pc) =>
          /\ pc' = "fetchSites"
          /\ call' = [op |-> "fetchSites", accountId |-> selectedAccount.id]
          /\ selectedAccount' = selectedAccount
          /\ sites' = <<>>

\* C24: "+ Add site" prompts for a name, calls createSite once with the
\* selected account's id and the typed name, and after success and failure
\* alike returns to the site selection of the same account, its list
\* fetched again.
C24_AddSite == [][C24_Prompted /\ C24_Called /\ C24_Returned]_vars

C24_Witness ==
    /\ pc = "siteAdded"
    /\ name = <<"A", "a">>
    /\ selectedAccount.id = 2
    /\ call = NoCall

EscapeOnAccounts == MenuEvent("accountMenu", -1)

C25_Exited ==
    lastEvent = EscapeOnAccounts =>
        /\ pc = "exited"
        /\ exitCode = 0
        /\ call = NoCall

\* no step starts from the state Escape on the account menu leads to
C25_NothingFollows == lastEvent # EscapeOnAccounts

\* C25: Escape on the account menu ends the process with exit code 0: no
\* gateway call is under way then, and no step follows.
C25_EscapeOnAccountsExits == [](C25_Exited) /\ [][C25_NothingFollows]_vars

C25_Witness ==
    /\ lastEvent = EscapeOnAccounts
    /\ pc = "exited"
    /\ exitCode = 0
    /\ Len(accounts) = 2

\* Exit was selected on the management menu or on the no-installs menu
ExitSelected ==
    lastEvent \in {MenuEvent("manageMenu", 2), MenuEvent("emptyInstallMenu", 2)}

C26_Exited ==
    ExitSelected =>
        /\ pc = "exited"
        /\ exitCode = 0
        /\ call = NoCall

C26_NothingFollows == ~ExitSelected

\* C26: Exit on the management menu or on the no-installs menu ends the
\* process with exit code 0: no gateway call is under way then, and no
\* step (no menu, no call) follows.
C26_ExitTerminates == [](C26_Exited) /\ [][C26_NothingFollows]_vars

C26_Witness ==
    /\ lastEvent = MenuEvent("manageMenu", 2)
    /\ pc = "exited"
    /\ exitCode = 0
    /\ selectedInstall.id = 2

C27_MenuHasAccounts ==
    pc = "accountMenu" =>
        /\ Len(accounts) >= 1
        /\ Len(menu.options) = Len(accounts)

\* what follows the accounts call is the account menu or the exit with
\* code 1
C27_AnswerStep ==
    (pc = "fetchAccounts" /\ pc' # pc) =>
        \/ /\ pc' = "accountMenu"
           /\ Len(accounts') >= 1
        \/ /\ pc' = "exited"
           /\ exitCode' = 1
           /\ menu' = NoMenu
           /\ listeners' = <<"readline">>

\* C27: an empty accounts list, at the start or on a later return to the
\* account selection, ends the process with exit code 1; the account menu
\* is never presented for it.
C27_NoAccountsIsFatal == [](C27_MenuHasAccounts) /\ [][C27_AnswerStep]_vars

C27_Witness ==
    /\ pc = "exited"
    /\ exitCode = 1
    /\ fresh
    /\ selectedAccount = NoAccount
    /\ menu = NoMenu

C28_Cancelled ==
    (pc = "environmentMenu" /\ lastEvent' = MenuEvent("environmentMenu", -1)) =>
        /\ pc' = "fetchInstalls"
        /\ call' = [op |-> "fetchInstalls", siteId |-> selectedSite.id]
        /\ selectedSite' = selectedSite
        /\ selectedAccount' = selectedAccount

\* C28: Escape on the environment menu of the add-install flow ends the
\* flow without a createInstall call: the installs of the same site are
\* loaded for the install selection.
C28_EscapeCancelsAddInstall ==
    [](lastEvent = MenuEvent("environmentMenu", -1) => call.op = "fetchInstalls")
        /\ [][C28_Cancelled]_vars

C28_Witness ==
    /\ lastEvent = MenuEvent("environmentMenu", -1)
    /\ pc = "fetchInstalls"
    /\ selectedSite.id = 2
    /\ name = <<>>

\* a menu resolved and main went one level down
DrillDown(menuScreen, target) ==
    /\ pc = menuScreen
    /\ lastEvent'.type = "menu"
    /\ pc' = target

\* the row the menu resolved on is row v of the list, and entity is it
PicksRow(list, label, entity) ==
    LET v == lastEvent'.value IN
    /\ v \in 0..(Len(list) - 1)
    /\ menu.selectedIndex = v
    /\ menu.options[v + 1] = label
    /\ entity = list[v + 1]
    /\ entity.id >= 1

C29_DrillDownStep ==
    /\ DrillDown("accountMenu", "fetchSites") =>
          PicksRow(accounts, "account", selectedAccount')
    /\ DrillDown("siteMenu", "fetchInstalls") =>
          PicksRow(sites, "site", selectedSite')
    /\ DrillDown("installMenu", "manageMenu") =>
          PicksRow(installs, "install", selectedInstall')

\* the entity main works on one level down is never undefined
C29_EntityDefined ==
    /\ pc \in {"fetchSites", "siteMenu", "noSites", "siteName", "createSite"}
          => selectedAccount # NoAccount
    /\ pc \in {"fetchInstalls", "installMenu", "emptyInstallMenu",
               "installName", "environmentMenu", "createInstall"}
          => (selectedAccount # NoAccount /\ selectedSite # NoSite)
    /\ pc \in {"manageMenu", "deleteConfirm", "deleteInstall"}
          => selectedInstall # NoInstall

\* C29: on every drill-down the resolved index is a row of the fetched
\* list and the selected entity is that row's element, never undefined;
\* the Add and Back rows, and Escape, are not taken for an entity.
C29_EntityFromList == [](C29_EntityDefined) /\ [][C29_DrillDownStep]_vars

C29_Witness ==
    /\ lastEvent = MenuEvent("installMenu", 2)
    /\ pc = "manageMenu"
    /\ selectedInstall.id = 3

\* C30: main enters addInstallFlow only with installs that leave an
\* environment free, so the flow's "All environments already exist" branch
\* is never reached from main's menus.
C30_RejectionUnreachable ==
    /\ pc # "noEnvironments"
    /\ pc \in {"installName", "environmentMenu", "createInstall"} =>
          /\ ~AllCovered
          /\ Len(getAvailableEnvironments(installs)) >= 1

C30_Witness ==
    /\ pc = "installName"
    /\ Len(installs) = 3
    /\ Environment(installs) = {"production", "development"}
    /\ input = <<"a">>


\* what main does with the text a prompt resolves with
Submitted(screen) ==
    CASE screen = "siteName" ->
            /\ name' = input
            /\ call' = [op |-> "createSite", accountId |-> selectedAccount.id,
                        name |-> input]
      [] screen = "installName" ->
            /\ name' = input
            /\ pc' \in {"environmentMenu", "noEnvironments"}
      [] screen = "deleteConfirm" ->
            /\ confirmation' = input
            /\ pc' \in {"deleteInstall", "incorrectConfirmation"}

C31_PromptStep ==
    pc \in PromptScreens =>
        \/ /\ lastEvent' = PromptEvent(pc, KeyReturn)
           /\ pc' \notin PromptScreens
           /\ ~includes(listeners', "text")
           /\ Submitted(pc)
        \/ /\ lastEvent' = InterruptEvent(pc)
           /\ pc' = "exited"
           /\ exitCode' = 0
        \/ /\ lastEvent'.type \notin {"return", "interrupt"}
           /\ lastEvent'.screen = pc
           /\ pc' = pc
           /\ listeners' = <<"text">>
           /\ call' = NoCall
           /\ UNCHANGED <<exitCode, name, confirmation, savedListeners,
                          deleteCalls, dataVars>>

C32_NoHandlerWhileAwaiting ==
    call # NoCall => \A h \in {"menu", "text", "anykey"} : ~includes(listeners, h)

\* a key event that arrives during a gateway call
KeyWhileAwaiting == call # NoCall /\ lastEvent' = KeyEvent(pc)

C32_KeyChangesNothing ==
    KeyWhileAwaiting =>
        /\ pc' = pc
        /\ call' = call
        /\ menu' = menu
        /\ UNCHANGED <<exitCode, input, listeners, savedListeners, deleteCalls,
                       afterConfirm, fresh, dataVars>>

\* C32: while a gateway call is outstanding no menu, text or press-any-key
\* handler is subscribed to the keypress events, and a key event arriving
\* then leaves the screen main is at, the selections, the highlighted
\* index and the outstanding call as they are and starts no other call.
C32_KeysIgnoredWhileAwaiting ==
    []C32_NoHandlerWhileAwaiting /\ [][C32_KeyChangesNothing]_vars

C32_Witness ==
    /\ pc = "deleteInstall"
    /\ call = [op |-> "deleteInstall", installId |-> selectedInstall.id]
    /\ lastEvent = KeyEvent("deleteInstall")
    /\ listeners = <<"readline">>
    /\ deleteCalls = <<selectedInstall.id>>


\* how far a position of main is from the exit when only Escape is pressed:
\* each screen lies above the request that loads it, each request above the
\* screen it is issued from on the way back
StepsToExit(at) ==
    CASE at = "exited" -> 0
      [] at = "accountMenu" -> 1
      [] at = "fetchAccounts" -> 2
      [] at \in {"siteMenu", "noSites"} -> 3
      [] at = "fetchSites" -> 4
      [] at \in {"siteAdded", "siteFailed"} -> 5
      [] at \in {"installMenu", "emptyInstallMenu"} -> 5
      [] at = "fetchInstalls" -> 6
      [] at \in {"environmentMenu", "noEnvironments", "installAdded",
                 "installFailed", "installDeleted", "manageMenu"} -> 7
      [] at \in {"incorrectConfirmation", "deleteFailed"} -> 8
      [] OTHER -> 9

C33_Terminates == onlyEscape ~> (pc = "exited")

\* every step moves towards the exit, so no screen is shown a second time
C33_TowardsExit == onlyEscape => StepsToExit(pc') < StepsToExit(pc)

C33_NotBeyondAncestors ==
    (onlyEscape /\ pc \in MenuScreens \cup PauseScreens) =>
        pc' \in GatewayWaits \cup {"exited", "manageMenu"}

\* C33: from any state in which a menu or a press-any-key pause waits, if
\* the user presses only Escape and every gateway call is answered, the
\* process eventually terminates, and on the way every step leads to a
\* screen nearer to the account selection, so each ancestor screen is
\* passed at most once.
C33_EscapeTerminates ==
    /\ C33_Terminates
    /\ [][C33_TowardsExit]_vars
    /\ [][C33_NotBeyondAncestors]_vars

C33_Witness ==
    /\ onlyEscape
    /\ pc = "exited"
    /\ exitCode = 0
    /\ lastEvent = MenuEvent("accountMenu", -1)


\* C34: for every install list, with duplicate, missing or unknown
\* environment values too, allEnvironmentsExist(installs) is true exactly
\* when getAvailableEnvironments(installs) is empty.
C34_AllExistIffNoneAvailable ==
    pc = "helpersReturned" => (allExist <=> Len(available) = 0)

C34_Witness ==
    /\ pc = "helpersReturned"
    /\ getExistingEnvironments(installs) =
          <<"staging", Missing, "production", "qa", "staging">>
    /\ ~allExist
    /\ available = <<"development">>

====
